---------------------------- MODULE Spec2Model ----------------------------
(***************************************************************************)
(* Model of the EXR metadata tools: the header parser FastEXRParser of     *)
(* src/src/fast_exr.rs (cursor, file acquisition, attribute stream,        *)
(* channel list) and the channel classifiers of src/src/simd_patterns.rs   *)
(* and src/src/main.rs.                                                    *)
(*                                                                         *)
(* A byte buffer (Vec<u8>, a file's content) is a sequence of chunks       *)
(* <<lit, b, n>>: the bytes of the sequence lit followed by the byte b     *)
(* repeated n times.  It denotes the byte string obtained by expanding the *)
(* chunks in order, so that a file of more than a mebibyte is a state TLC  *)
(* can hold.  Indices into a buffer are 0-based, as in the source.         *)
(* A string is the sequence of its characters' code points.                *)
(***************************************************************************)
EXTENDS Integers, Sequences, FiniteSets, TLC

VARIABLES
    file,        \* the bytes of the file on disk
    data,        \* FastEXRParser.data
    position,    \* FastEXRParser.position
    pc,          \* where the parse stands
    run,         \* 1: the parse of the buffer from_file made; 2: of the whole file
    err,         \* the error the parse returned, [kind |-> "none"] while there is none
    metadata,    \* parse_metadata's local `metadata`
    attr,        \* parse_metadata's locals attr_name, attr_size and where the record began
    chan,        \* parse_channels' locals
    lastOp,      \* the cursor operation the last step made, and where it began
    first,       \* the outcome of run 1, kept while run 2 parses the whole file
    task,        \* what the classifier is asked: "classify", "match", or "none"
    config,      \* the ChannelGroupConfig in force
    channel_name,\* the channel name to classify
    text,        \* the matchers' text
    pattern,     \* the matchers' pattern
    sse2,        \* whether the build is x86_64 and SSE2 is detected
    group,       \* <<determine_channel_group's result>>, <<>> before the call
    group_fast,  \* <<determine_channel_group_ultra_fast's result>>
    matched,     \* <<matches_pattern's result>>
    matched_simd,\* <<matches_pattern_simd's result>>
    batch,       \* main's batch of files: the worker pool, messages, results
    grouping     \* process_exr_file's grouping of one file's channels

parserVars == <<file, data, position, pc, run, err, metadata, attr, chan, lastOp, first>>

classifierVars ==
    <<task, config, channel_name, text, pattern, sse2, group, group_fast,
      matched, matched_simd>>

poolVars == <<batch, grouping>>

vars == <<parserVars, classifierVars, poolVars>>

\* no batch is running
NoBatch == [tool |-> "none"]

\* no channel list is being grouped
NoGrouping == [stage |-> "none"]

(***************************************************************************)
(* Byte buffers                                                            *)
(***************************************************************************)
ChunkLen(c) == Len(c[1]) + c[3]

RECURSIVE BLenFrom(_, _)
BLenFrom(buf, k) ==
    IF k > Len(buf) THEN 0 ELSE ChunkLen(buf[k]) + BLenFrom(buf, k + 1)

\* data.len()
BLen(buf) == BLenFrom(buf, 1)

RECURSIVE ByteFrom(_, _, _)
ByteFrom(buf, i, k) ==
    IF i < Len(buf[k][1]) THEN buf[k][1][i + 1]
    ELSE IF i < ChunkLen(buf[k]) THEN buf[k][2]
    ELSE ByteFrom(buf, i - ChunkLen(buf[k]), k + 1)

\* data[i], for 0 <= i < data.len()
ByteAt(buf, i) == ByteFrom(buf, i, 1)

RECURSIVE TakeFrom(_, _, _)
TakeFrom(buf, n, k) ==
    IF n <= 0 \/ k > Len(buf) THEN <<>>
    ELSE IF ChunkLen(buf[k]) <= n
         THEN <<buf[k]>> \o TakeFrom(buf, n - ChunkLen(buf[k]), k + 1)
         ELSE IF n <= Len(buf[k][1])
         THEN << <<SubSeq(buf[k][1], 1, n), 0, 0>> >>
         ELSE << <<buf[k][1], buf[k][2], n - Len(buf[k][1])>> >>

\* buf[..n], for n <= buf.len()
Slice(buf, n) == TakeFrom(buf, n, 1)

\* The bytes data[p .. p + n - 1] as a sequence, for small n.
Bytes(buf, p, n) == [i \in 1..n |-> ByteAt(buf, p + i - 1)]

(***************************************************************************)
(* Cursor (fast_exr.rs 235-297).  Each operation is given the buffer and   *)
(* the position and yields [ok, val, pos]: whether it succeeded, the value *)
(* read, and the position it leaves.                                       *)
(***************************************************************************)
EndOfData(p) == [ok |-> FALSE, val |-> 0, pos |-> p]

\* u32::from_le_bytes
U32LE(b) == b[1] + 256 * b[2] + 65536 * b[3] + 16777216 * b[4]

\* u32::from_le_bytes(..) as i32: the same 32 bits read as two's complement
I32LE(b) ==
    b[1] + 256 * b[2] + 65536 * b[3]
      + 16777216 * (IF b[4] >= 128 THEN b[4] - 256 ELSE b[4])

read_u8(d, p) ==
    IF p >= BLen(d) THEN EndOfData(p)
    ELSE [ok |-> TRUE, val |-> ByteAt(d, p), pos |-> p + 1]

read_u32(d, p) ==
    IF p + 4 > BLen(d) THEN EndOfData(p)
    ELSE [ok |-> TRUE, val |-> U32LE(Bytes(d, p, 4)), pos |-> p + 4]

read_i32(d, p) ==
    IF p + 4 > BLen(d) THEN EndOfData(p)
    ELSE [ok |-> TRUE, val |-> I32LE(Bytes(d, p, 4)), pos |-> p + 4]

\* f32::from_bits(read_u32): the value is kept as its 32 bits
read_f32(d, p) == read_u32(d, p)

\* String::from_utf8_lossy: an ASCII byte is its character, a byte that can
\* occur in no UTF-8 sequence (the only other bytes the files here hold are
\* 245..255) becomes U+FFFD.
Utf8Lossy(bytes) == [i \in 1..Len(bytes) |-> IF bytes[i] < 128 THEN bytes[i] ELSE 65533]

\* ScanString leaving the cursor on the zero byte
RECURSIVE ScanStringKeepsTerminator(_, _, _)
ScanStringKeepsTerminator(d, p, acc) ==
    IF p >= BLen(d) THEN [ok |-> TRUE, val |-> Utf8Lossy(acc), pos |-> p, raw |-> acc]
    ELSE IF ByteAt(d, p) = 0
         THEN [ok |-> TRUE, val |-> Utf8Lossy(acc), pos |-> p, raw |-> acc]
    ELSE ScanStringKeepsTerminator(d, p + 1, Append(acc, ByteAt(d, p)))

\* the loop of read_null_terminated_string; acc is `result`, the bytes read
RECURSIVE ScanString(_, _, _)
ScanString(d, p, acc) ==
    IF p >= BLen(d) THEN [ok |-> TRUE, val |-> Utf8Lossy(acc), pos |-> p, raw |-> acc]
    ELSE IF ByteAt(d, p) = 0
         THEN [ok |-> TRUE, val |-> Utf8Lossy(acc), pos |-> p + 1, raw |-> acc]
    ELSE ScanString(d, p + 1, Append(acc, ByteAt(d, p)))

read_null_terminated_string(d, p) == ScanString(d, p, <<>>)

read_fixed_string(d, p, size) ==
    IF p + size > BLen(d) THEN EndOfData(p)
    ELSE [ok |-> TRUE, val |-> Utf8Lossy(Bytes(d, p, size)), pos |-> p + size]

\* skip without its bounds check
skip_unchecked(d, p, count) == [ok |-> TRUE, val |-> 0, pos |-> p + count]

skip(d, p, count) ==
    IF p + count > BLen(d) THEN EndOfData(p)
    ELSE [ok |-> TRUE, val |-> 0, pos |-> p + count]


(***************************************************************************)
(* The attribute names parse_metadata dispatches on (fast_exr.rs 110-145), *)
(* as code points.                                                         *)
(***************************************************************************)
\* "channels"
NameChannels == <<99, 104, 97, 110, 110, 101, 108, 115>>
\* "displayWindow"
NameDisplayWindow == <<100, 105, 115, 112, 108, 97, 121, 87, 105, 110, 100, 111, 119>>
\* "pixelAspectRatio"
NamePixelAspectRatio == <<112, 105, 120, 101, 108, 65, 115, 112, 101, 99, 116, 82, 97, 116, 105, 111>>
\* "compression"
NameCompression == <<99, 111, 109, 112, 114, 101, 115, 115, 105, 111, 110>>
\* "lineOrder"
NameLineOrder == <<108, 105, 110, 101, 79, 114, 100, 101, 114>>
\* "name"
NameName == <<110, 97, 109, 101>>

KnownNames ==
    {NameChannels, NameDisplayWindow, NamePixelAspectRatio, NameCompression,
     NameLineOrder, NameName}

(***************************************************************************)
(* Results                                                                 *)
(***************************************************************************)
NoError == [kind |-> "none", value |-> 0]
InvalidMagicNumber == [kind |-> "InvalidMagicNumber", value |-> 0]
UnexpectedEndOfData == [kind |-> "UnexpectedEndOfData", value |-> 0]
UnknownSampleType(v) == [kind |-> "UnknownSampleType", value |-> v]

\* from_u32 taking every other code for Float
from_u32_lenient(value) ==
    CASE value = 0 -> [ok |-> TRUE, val |-> "UInt"]
      [] value = 1 -> [ok |-> TRUE, val |-> "Half"]
      [] OTHER -> [ok |-> TRUE, val |-> "Float"]

\* SampleType::from_u32
from_u32(value) ==
    CASE value = 0 -> [ok |-> TRUE, val |-> "UInt"]
      [] value = 1 -> [ok |-> TRUE, val |-> "Half"]
      [] value = 2 -> [ok |-> TRUE, val |-> "Float"]
      [] OTHER -> [ok |-> FALSE, val |-> value]

\* The metadata record parse_metadata starts from.  pixel_aspect holds the
\* bits of the f32 (1.0 is 0x3F800000); layer_name is <<>> for None and
\* DefaultMetadata with the line order "Decreasing"
DefaultMetadataDecreasing ==
    [channels |-> <<>>,
     display_window |-> <<0, 0, 0, 0>>,
     pixel_aspect |-> 1065353216,
     compression |-> <<"Unknown">>,
     line_order |-> <<"Decreasing">>,
     layer_name |-> <<>>,
     custom_attributes |-> [k \in {} |-> <<>>]]

\* <<s>> for Some(s); compression and line_order are <<label>>, or
\* <<"Unknown", v>> for the text "Unknown(v)".
DefaultMetadata ==
    [channels |-> <<>>,
     display_window |-> <<0, 0, 0, 0>>,
     pixel_aspect |-> 1065353216,
     compression |-> <<"Unknown">>,
     line_order |-> <<"Increasing">>,
     layer_name |-> <<>>,
     custom_attributes |-> [k \in {} |-> <<>>]]

\* the match of read_compression
CompressionName(comp) ==
    CASE comp = 0 -> <<"None">>
      [] comp = 1 -> <<"RLE">>
      [] comp = 2 -> <<"ZIPS">>
      [] comp = 3 -> <<"ZIP">>
      [] comp = 4 -> <<"PIZ">>
      [] comp = 5 -> <<"PXR24">>
      [] comp = 6 -> <<"B44">>
      [] comp = 7 -> <<"B44A">>
      [] comp = 8 -> <<"DWAA">>
      [] comp = 9 -> <<"DWAB">>
      [] OTHER -> <<"Unknown", comp>>

\* the match of read_line_order
LineOrderName(order) ==
    CASE order = 0 -> <<"Increasing">>
      [] order = 1 -> <<"Decreasing">>
      [] order = 2 -> <<"Random">>
      [] OTHER -> <<"Unknown", order>>

\* IsPrintable without the whitespace
IsPrintableGraphic(c) == 33 <= c /\ c <= 126

\* c.is_ascii_graphic() || c.is_ascii_whitespace()
IsPrintable(c) == (33 <= c /\ c <= 126) \/ c \in {32, 9, 10, 12, 13}

\* HashMap::insert
MapInsert(m, k, v) == [x \in DOMAIN m \cup {k} |-> IF x = k THEN v ELSE m[x]]


(***************************************************************************)
(* Steps of the parse.  A step makes at most one cursor operation and      *)
(* records it in lastOp.                                                   *)
(***************************************************************************)
Op(name, need, before, r) ==
    [op |-> name, need |-> need, before |-> before, ok |-> r.ok]

NoOp == [op |-> "none", need |-> 0, before |-> 0, ok |-> TRUE]

\* attr_name, _attr_type, attr_size, start_pos and the values read so far;
\* start is the position before the name, payload that of the first payload
\* byte, name_bytes and type_bytes the bytes the two strings were read from
NoAttr == [name |-> <<>>, type |-> <<>>, size |-> 0, start |-> 0, payload |-> 0,
           name_bytes |-> <<>>, type_bytes |-> <<>>,
           start_pos |-> 0, vals |-> <<>>]

NoChan == [start_pos |-> 0, size |-> 0, channels |-> <<>>, name |-> <<>>,
           pixel_type |-> 0, p_linear |-> 0, x_sampling |-> 0, broke |-> FALSE]

\* return Err(e)
Fail(e) == pc' = "failed" /\ err' = e

Goto(label) == pc' = label /\ err' = err

Min(a, b) == IF a < b THEN a ELSE b

(***************************************************************************)
(* File acquisition: from_file (fast_exr.rs 54-74)                         *)
(***************************************************************************)
MagicNumber == 20000630
HeaderReadSize == 65536
MmapThreshold == 1048576

file_size == BLen(file)

\* read_size without the cap
read_size_uncapped == file_size

read_size == Min(file_size, HeaderReadSize)

\* MmapOptions::new().len(n).map(&file): the first n bytes of the file
Mmap(f, n) == Slice(f, n)

\* vec![0u8; n] filled by file.read_exact: the first n bytes of the file
ReadExact(f, n) == Slice(f, n)

FromFileMapped ==
    /\ pc = "open"
    /\ file_size > MmapThreshold
    /\ data' = Slice(Mmap(file, read_size), read_size)
    /\ position' = 0
    /\ pc' = "magic"
    /\ UNCHANGED <<classifierVars, poolVars, file, run, err, metadata, attr, chan, lastOp, first>>

FromFileDirect ==
    /\ pc = "open"
    /\ ~(file_size > MmapThreshold)
    /\ data' = ReadExact(file, read_size)
    /\ position' = 0
    /\ pc' = "magic"
    /\ UNCHANGED <<classifierVars, poolVars, file, run, err, metadata, attr, chan, lastOp, first>>

(***************************************************************************)
(* parse_metadata (fast_exr.rs 76-168)                                     *)
(***************************************************************************)
\* ReadMagic without the comparison with the magic number
ReadMagicUnchecked ==
    /\ pc = "magic"
    /\ LET r == read_u32(data, position) IN
        /\ lastOp' = Op("read_u32", 4, position, r)
        /\ position' = r.pos
        /\ IF ~r.ok THEN Fail(UnexpectedEndOfData) ELSE Goto("version")
    /\ UNCHANGED <<classifierVars, poolVars, file, data, run, metadata, attr, chan, first>>

ReadMagic ==
    /\ pc = "magic"
    /\ LET r == read_u32(data, position) IN
        /\ lastOp' = Op("read_u32", 4, position, r)
        /\ position' = r.pos
        /\ IF ~r.ok THEN Fail(UnexpectedEndOfData)
           ELSE IF r.val # MagicNumber THEN Fail(InvalidMagicNumber)
           ELSE Goto("version")
    /\ UNCHANGED <<classifierVars, poolVars, file, data, run, metadata, attr, chan, first>>

ReadVersion ==
    /\ pc = "version"
    /\ LET r == read_u32(data, position) IN
        /\ lastOp' = Op("read_u32", 4, position, r)
        /\ position' = r.pos
        /\ IF ~r.ok THEN Fail(UnexpectedEndOfData) ELSE Goto("attr_loop")
    /\ metadata' = DefaultMetadata
    /\ UNCHANGED <<classifierVars, poolVars, file, data, run, attr, chan, first>>

\* while self.position < self.data.len(): the condition fails
AttrLoopExit ==
    /\ pc = "attr_loop"
    /\ ~(position < BLen(data))
    /\ Goto("done")
    /\ lastOp' = NoOp
    /\ UNCHANGED <<classifierVars, poolVars, file, data, position, run, metadata, attr, chan, first>>

ReadAttrName ==
    /\ pc = "attr_loop"
    /\ position < BLen(data)
    /\ LET r == read_null_terminated_string(data, position) IN
        /\ lastOp' = Op("read_null_terminated_string", 0, position, r)
        /\ position' = r.pos
        /\ attr' = [NoAttr EXCEPT !.name = r.val, !.name_bytes = r.raw,
                                  !.start = position]
        /\ IF r.val = <<>> THEN Goto("done") ELSE Goto("attr_type")
    /\ UNCHANGED <<classifierVars, poolVars, file, data, run, metadata, chan, first>>

ReadAttrType ==
    /\ pc = "attr_type"
    /\ LET r == read_null_terminated_string(data, position) IN
        /\ lastOp' = Op("read_null_terminated_string", 0, position, r)
        /\ position' = r.pos
        /\ attr' = [attr EXCEPT !.type = r.val, !.type_bytes = r.raw]
        /\ Goto("attr_size")
    /\ UNCHANGED <<classifierVars, poolVars, file, data, run, metadata, chan, first>>

ReadAttrSize ==
    /\ pc = "attr_size"
    /\ LET r == read_u32(data, position) IN
        /\ lastOp' = Op("read_u32", 4, position, r)
        /\ position' = r.pos
        /\ attr' = [attr EXCEPT !.size = r.val, !.payload = r.pos]
        /\ IF ~r.ok THEN Fail(UnexpectedEndOfData) ELSE Goto("dispatch")
    /\ UNCHANGED <<classifierVars, poolVars, file, data, run, metadata, chan, first>>

\* SkipAttr that leaves the payload unread
SkipAttrForgotten ==
    /\ lastOp' = NoOp
    /\ position' = position
    /\ Goto("attr_loop")

\* self.skip(attr_size)?, the else branch of a handler
SkipAttr ==
    LET r == skip(data, position, attr.size) IN
        /\ lastOp' = Op("skip", attr.size, position, r)
        /\ position' = r.pos
        /\ IF ~r.ok THEN Fail(UnexpectedEndOfData) ELSE Goto("attr_loop")

\* "channels" => metadata.channels = self.parse_channels(attr_size)?
DispatchChannels ==
    /\ pc = "dispatch"
    /\ attr.name = NameChannels
    /\ chan' = [NoChan EXCEPT !.start_pos = position, !.size = attr.size]
    /\ Goto("ch_loop")
    /\ lastOp' = NoOp
    /\ UNCHANGED <<classifierVars, poolVars, file, data, position, run, metadata, attr, first>>

DispatchDisplayWindow ==
    /\ pc = "dispatch"
    /\ attr.name = NameDisplayWindow
    /\ IF attr.size >= 16
       THEN /\ Goto("display_window")
            /\ lastOp' = NoOp
            /\ position' = position
       ELSE SkipAttr
    /\ UNCHANGED <<classifierVars, poolVars, file, data, run, metadata, attr, chan, first>>

\* one of the four self.read_i32()? of the tuple; the tuple is assigned
\* once all four are read
ReadDisplayWindow ==
    /\ pc = "display_window"
    /\ LET r == read_i32(data, position)
           vals == Append(attr.vals, r.val)
       IN
        /\ lastOp' = Op("read_i32", 4, position, r)
        /\ position' = r.pos
        /\ IF ~r.ok
           THEN Fail(UnexpectedEndOfData) /\ UNCHANGED <<metadata, attr>>
           ELSE IF Len(vals) < 4
           THEN Goto("display_window")
                /\ attr' = [attr EXCEPT !.vals = vals]
                /\ metadata' = metadata
           ELSE Goto("attr_loop")
                /\ attr' = [attr EXCEPT !.vals = vals]
                /\ metadata' = [metadata EXCEPT !.display_window = vals]
    /\ UNCHANGED <<classifierVars, poolVars, file, data, run, chan, first>>

DispatchPixelAspectRatio ==
    /\ pc = "dispatch"
    /\ attr.name = NamePixelAspectRatio
    /\ IF attr.size >= 4
       THEN LET r == read_f32(data, position) IN
            /\ lastOp' = Op("read_f32", 4, position, r)
            /\ position' = r.pos
            /\ IF ~r.ok
               THEN Fail(UnexpectedEndOfData) /\ metadata' = metadata
               ELSE Goto("attr_loop")
                    /\ metadata' = [metadata EXCEPT !.pixel_aspect = r.val]
       ELSE SkipAttr /\ metadata' = metadata
    /\ UNCHANGED <<classifierVars, poolVars, file, data, run, attr, chan, first>>

\* read_compression and read_line_order (fast_exr.rs 197-232): the first
\* byte, when size >= 1
DispatchCompression ==
    /\ pc = "dispatch"
    /\ attr.name = NameCompression
    /\ IF attr.size >= 1
       THEN LET r == read_u8(data, position) IN
            /\ lastOp' = Op("read_u8", 1, position, r)
            /\ position' = r.pos
            /\ attr' = [attr EXCEPT !.vals = <<r.val>>]
            /\ metadata' = metadata
            /\ IF ~r.ok THEN Fail(UnexpectedEndOfData) ELSE Goto("compression_rest")
       ELSE /\ metadata' = [metadata EXCEPT !.compression = <<"Unknown">>]
            /\ Goto("attr_loop")
            /\ lastOp' = NoOp
            /\ UNCHANGED <<position, attr>>
    /\ UNCHANGED <<classifierVars, poolVars, file, data, run, chan, first>>

\* self.skip(size - 1)?, then the label of the byte
SkipCompressionRest ==
    /\ pc = "compression_rest"
    /\ LET r == skip(data, position, attr.size - 1) IN
        /\ lastOp' = Op("skip", attr.size - 1, position, r)
        /\ position' = r.pos
        /\ IF ~r.ok
           THEN Fail(UnexpectedEndOfData) /\ metadata' = metadata
           ELSE Goto("attr_loop")
                /\ metadata' = [metadata EXCEPT
                                  !.compression = CompressionName(attr.vals[1])]
    /\ UNCHANGED <<classifierVars, poolVars, file, data, run, attr, chan, first>>

DispatchLineOrder ==
    /\ pc = "dispatch"
    /\ attr.name = NameLineOrder
    /\ IF attr.size >= 1
       THEN LET r == read_u8(data, position) IN
            /\ lastOp' = Op("read_u8", 1, position, r)
            /\ position' = r.pos
            /\ attr' = [attr EXCEPT !.vals = <<r.val>>]
            /\ metadata' = metadata
            /\ IF ~r.ok THEN Fail(UnexpectedEndOfData) ELSE Goto("line_order_rest")
       ELSE /\ metadata' = [metadata EXCEPT !.line_order = <<"Increasing">>]
            /\ Goto("attr_loop")
            /\ lastOp' = NoOp
            /\ UNCHANGED <<position, attr>>
    /\ UNCHANGED <<classifierVars, poolVars, file, data, run, chan, first>>

SkipLineOrderRest ==
    /\ pc = "line_order_rest"
    /\ LET r == skip(data, position, attr.size - 1) IN
        /\ lastOp' = Op("skip", attr.size - 1, position, r)
        /\ position' = r.pos
        /\ IF ~r.ok
           THEN Fail(UnexpectedEndOfData) /\ metadata' = metadata
           ELSE Goto("attr_loop")
                /\ metadata' = [metadata EXCEPT
                                  !.line_order = LineOrderName(attr.vals[1])]
    /\ UNCHANGED <<classifierVars, poolVars, file, data, run, attr, chan, first>>

DispatchName ==
    /\ pc = "dispatch"
    /\ attr.name = NameName
    /\ IF attr.size > 0
       THEN LET r == read_fixed_string(data, position, attr.size) IN
            /\ lastOp' = Op("read_fixed_string", attr.size, position, r)
            /\ position' = r.pos
            /\ IF ~r.ok
               THEN Fail(UnexpectedEndOfData) /\ metadata' = metadata
               ELSE Goto("attr_loop")
                    /\ metadata' = [metadata EXCEPT !.layer_name = <<r.val>>]
       ELSE SkipAttr /\ metadata' = metadata
    /\ UNCHANGED <<classifierVars, poolVars, file, data, run, attr, chan, first>>

\* the default branch (fast_exr.rs 146-163)
DispatchUnknown ==
    /\ pc = "dispatch"
    /\ attr.name \notin KnownNames
    /\ IF attr.size > 0 /\ attr.size <= 64
       THEN LET r == read_fixed_string(data, position, attr.size) IN
            /\ lastOp' = Op("read_fixed_string", attr.size, position, r)
            /\ position' = r.pos
            /\ attr' = [attr EXCEPT !.start_pos = position]
            /\ IF r.ok
               THEN /\ Goto("attr_loop")
                    /\ metadata' =
                         IF \A i \in 1..Len(r.val) : IsPrintable(r.val[i])
                         THEN [metadata EXCEPT !.custom_attributes =
                                 MapInsert(@, attr.name, r.val)]
                         ELSE metadata
               ELSE Goto("unknown_recover") /\ metadata' = metadata
       ELSE SkipAttr /\ UNCHANGED <<metadata, attr>>
    /\ UNCHANGED <<classifierVars, poolVars, file, data, run, chan, first>>

\* RecoverUnknown assigning the position before the attribute's name
RecoverUnknownRewinds ==
    /\ pc = "unknown_recover"
    /\ LET r == skip(data, attr.start, attr.size) IN
        /\ lastOp' = Op("skip", attr.size, attr.start, r)
        /\ position' = r.pos
        /\ IF ~r.ok THEN Fail(UnexpectedEndOfData) ELSE Goto("attr_loop")
    /\ UNCHANGED <<classifierVars, poolVars, file, data, run, metadata, attr, chan, first>>

\* self.position = start_pos; self.skip(attr_size)?
RecoverUnknown ==
    /\ pc = "unknown_recover"
    /\ LET r == skip(data, attr.start_pos, attr.size) IN
        /\ lastOp' = Op("skip", attr.size, attr.start_pos, r)
        /\ position' = r.pos
        /\ IF ~r.ok THEN Fail(UnexpectedEndOfData) ELSE Goto("attr_loop")
    /\ UNCHANGED <<classifierVars, poolVars, file, data, run, metadata, attr, chan, first>>


(***************************************************************************)
(* parse_channels (fast_exr.rs 170-195)                                    *)
(***************************************************************************)
\* while self.position < start_pos + size: the condition fails; Ok(channels)
ChannelLoopExit ==
    /\ pc = "ch_loop"
    /\ ~(position < chan.start_pos + chan.size)
    /\ metadata' = [metadata EXCEPT !.channels = chan.channels]
    /\ Goto("attr_loop")
    /\ lastOp' = NoOp
    /\ UNCHANGED <<classifierVars, poolVars, file, data, position, run, attr, chan, first>>

\* ReadChannelName going round the loop again on an empty name read at
\* the end of the buffer
ReadChannelNameSpins ==
    /\ pc = "ch_loop"
    /\ position < chan.start_pos + chan.size
    /\ LET r == read_null_terminated_string(data, position) IN
        /\ lastOp' = Op("read_null_terminated_string", 0, position, r)
        /\ position' = r.pos
        /\ IF r.val = <<>> /\ position >= BLen(data)
           THEN /\ chan' = chan
                /\ metadata' = metadata
                /\ Goto("ch_loop")
           ELSE IF r.val = <<>>
           THEN /\ chan' = [chan EXCEPT !.broke = TRUE]
                /\ metadata' = [metadata EXCEPT !.channels = chan.channels]
                /\ Goto("attr_loop")
           ELSE /\ chan' = [chan EXCEPT !.name = r.val]
                /\ metadata' = metadata
                /\ Goto("ch_pixel_type")
    /\ UNCHANGED <<classifierVars, poolVars, file, data, run, attr, first>>

\* ReadChannelName moving the cursor to the end of the span on the empty name
ReadChannelNameSkipsSpan ==
    /\ pc = "ch_loop"
    /\ position < chan.start_pos + chan.size
    /\ LET r == read_null_terminated_string(data, position) IN
        /\ lastOp' = Op("read_null_terminated_string", 0, position, r)
        /\ IF r.val = <<>>
           THEN /\ position' = Min(chan.start_pos + chan.size, BLen(data))
                /\ chan' = [chan EXCEPT !.broke = TRUE]
                /\ metadata' = [metadata EXCEPT !.channels = chan.channels]
                /\ Goto("attr_loop")
           ELSE /\ position' = r.pos
                /\ chan' = [chan EXCEPT !.name = r.val]
                /\ metadata' = metadata
                /\ Goto("ch_pixel_type")
    /\ UNCHANGED <<classifierVars, poolVars, file, data, run, attr, first>>

ReadChannelName ==
    /\ pc = "ch_loop"
    /\ position < chan.start_pos + chan.size
    /\ LET r == read_null_terminated_string(data, position) IN
        /\ lastOp' = Op("read_null_terminated_string", 0, position, r)
        /\ position' = r.pos
        /\ IF r.val = <<>>
           THEN \* break; Ok(channels)
                /\ chan' = [chan EXCEPT !.broke = TRUE]
                /\ metadata' = [metadata EXCEPT !.channels = chan.channels]
                /\ Goto("attr_loop")
           ELSE /\ chan' = [chan EXCEPT !.name = r.val]
                /\ metadata' = metadata
                /\ Goto("ch_pixel_type")
    /\ UNCHANGED <<classifierVars, poolVars, file, data, run, attr, first>>

ReadPixelType ==
    /\ pc = "ch_pixel_type"
    /\ LET r == read_u32(data, position) IN
        /\ lastOp' = Op("read_u32", 4, position, r)
        /\ position' = r.pos
        /\ chan' = [chan EXCEPT !.pixel_type = r.val]
        /\ IF ~r.ok THEN Fail(UnexpectedEndOfData) ELSE Goto("ch_p_linear")
    /\ UNCHANGED <<classifierVars, poolVars, file, data, run, metadata, attr, first>>

ReadPLinear ==
    /\ pc = "ch_p_linear"
    /\ LET r == read_u8(data, position) IN
        /\ lastOp' = Op("read_u8", 1, position, r)
        /\ position' = r.pos
        /\ chan' = [chan EXCEPT !.p_linear = r.val]
        /\ IF ~r.ok THEN Fail(UnexpectedEndOfData) ELSE Goto("ch_reserved")
    /\ UNCHANGED <<classifierVars, poolVars, file, data, run, metadata, attr, first>>

SkipReserved ==
    /\ pc = "ch_reserved"
    /\ LET r == skip(data, position, 3) IN
        /\ lastOp' = Op("skip", 3, position, r)
        /\ position' = r.pos
        /\ IF ~r.ok THEN Fail(UnexpectedEndOfData) ELSE Goto("ch_x_sampling")
    /\ UNCHANGED <<classifierVars, poolVars, file, data, run, metadata, attr, chan, first>>

ReadXSampling ==
    /\ pc = "ch_x_sampling"
    /\ LET r == read_i32(data, position) IN
        /\ lastOp' = Op("read_i32", 4, position, r)
        /\ position' = r.pos
        /\ chan' = [chan EXCEPT !.x_sampling = r.val]
        /\ IF ~r.ok THEN Fail(UnexpectedEndOfData) ELSE Goto("ch_y_sampling")
    /\ UNCHANGED <<classifierVars, poolVars, file, data, run, metadata, attr, first>>

\* ChannelInfo with quantize_linearly true for the pLinear byte 1 only
ChannelInfoLinearIsOne(name, sample_type, x_sampling, y_sampling, p_linear) ==
    [name |-> name,
     sample_type |-> sample_type,
     sampling |-> <<x_sampling, y_sampling>>,
     quantize_linearly |-> (p_linear = 1)]

\* the ChannelInfo pushed at fast_exr.rs 186-191
ChannelInfo(name, sample_type, x_sampling, y_sampling, p_linear) ==
    [name |-> name,
     sample_type |-> sample_type,
     sampling |-> <<x_sampling, y_sampling>>,
     quantize_linearly |-> (p_linear # 0)]

\* let y_sampling = self.read_i32()?; channels.push(ChannelInfo { .. });
\* SampleType::from_u32(pixel_type)? is evaluated here, after the reads
ReadYSampling ==
    /\ pc = "ch_y_sampling"
    /\ LET r == read_i32(data, position)
           t == from_u32(chan.pixel_type)
       IN
        /\ lastOp' = Op("read_i32", 4, position, r)
        /\ position' = r.pos
        /\ IF ~r.ok
           THEN Fail(UnexpectedEndOfData) /\ chan' = chan
           ELSE IF ~t.ok
           THEN Fail(UnknownSampleType(t.val)) /\ chan' = chan
           ELSE /\ Goto("ch_loop")
                /\ chan' = [chan EXCEPT !.channels =
                              Append(@, ChannelInfo(chan.name, t.val,
                                        chan.x_sampling, r.val, chan.p_linear))]
    /\ UNCHANGED <<classifierVars, poolVars, file, data, run, metadata, attr, first>>

(***************************************************************************)
(* The result of a parse: Ok(metadata) or Err(e)                           *)
(***************************************************************************)
Finished == pc \in {"done", "failed"}

Outcome == IF pc = "done" THEN <<"Ok", metadata>> ELSE <<"Err", err>>

\* read_exr_metadata_ultra_fast (fast_exr.rs 301-304) with the parser given
\* the whole file instead of from_file's capped buffer: the parse the
\* capped one is compared with.  It runs when from_file dropped bytes.
ParseWholeFile ==
    /\ Finished
    /\ run = 1
    /\ BLen(data) < BLen(file)
    /\ first' = Outcome
    /\ run' = 2
    /\ data' = file
    /\ position' = 0
    /\ pc' = "magic"
    /\ err' = NoError
    /\ metadata' = DefaultMetadata
    /\ attr' = NoAttr
    /\ chan' = NoChan
    /\ lastOp' = NoOp
    /\ UNCHANGED <<classifierVars, poolVars, file>>


(***************************************************************************)
(* Pattern matching: matches_pattern (main.rs 378-392) and                 *)
(* matches_pattern_simd (simd_patterns.rs 9-88).  A str is the sequence of *)
(* its code points; the strings here are ASCII, so its bytes too.          *)
(***************************************************************************)
\* '*'
Star == 42

\* str::starts_with
starts_with(t, prefix) ==
    Len(prefix) <= Len(t) /\ SubSeq(t, 1, Len(prefix)) = prefix

\* str::ends_with
ends_with(t, suffix) ==
    Len(suffix) <= Len(t) /\ SubSeq(t, Len(t) - Len(suffix) + 1, Len(t)) = suffix

\* pattern.strip_suffix('*'): <<rest>>, or <<>> for None
strip_suffix_star(pat) ==
    IF Len(pat) >= 1 /\ pat[Len(pat)] = Star
    THEN <<SubSeq(pat, 1, Len(pat) - 1)>> ELSE <<>>

\* pattern.strip_prefix('*')
strip_prefix_star(pat) ==
    IF Len(pat) >= 1 /\ pat[1] = Star THEN <<SubSeq(pat, 2, Len(pat))>> ELSE <<>>

\* matches_pattern with the suffix pattern tried before the prefix pattern
matches_pattern_suffix_first(t, pat) ==
    IF pat = <<Star>> THEN TRUE
    ELSE IF strip_prefix_star(pat) # <<>> THEN ends_with(t, strip_prefix_star(pat)[1])
    ELSE IF strip_suffix_star(pat) # <<>> THEN starts_with(t, strip_suffix_star(pat)[1])
    ELSE t = pat

matches_pattern(t, pat) ==
    IF pat = <<Star>> THEN TRUE
    ELSE IF strip_suffix_star(pat) # <<>> THEN starts_with(t, strip_suffix_star(pat)[1])
    ELSE IF strip_prefix_star(pat) # <<>> THEN ends_with(t, strip_prefix_star(pat)[1])
    ELSE t = pat

\* _mm_movemask_epi8(_mm_cmpeq_epi8(..)) of the 16 bytes of chunk i: the
\* set of the lanes 0..15 whose bytes are equal, 0xFFFF being all of them
cmpeq_mask(t, prefix, i) == {j \in 0..15 : t[i * 16 + j + 1] = prefix[i * 16 + j + 1]}

\* matches_prefix_sse2 (simd_patterns.rs 53-77), for Len(prefix) <= Len(t)
matches_prefix_sse2(t, prefix) ==
    LET chunks == Len(prefix) \div 16
        remaining == Len(prefix) % 16
        start == chunks * 16
    IN  IF \E i \in 0..(chunks - 1) : cmpeq_mask(t, prefix, i) # 0..15
        THEN FALSE
        ELSE IF remaining > 0
        THEN SubSeq(t, start + 1, start + remaining)
                = SubSeq(prefix, start + 1, Len(prefix))
        ELSE TRUE

\* matches_prefix_simd (simd_patterns.rs 33-51 on x86_64, 79-82 elsewhere);
\* simd: the target is x86_64 and is_x86_feature_detected!("sse2")
matches_prefix_simd(t, prefix, simd) ==
    IF ~simd THEN starts_with(t, prefix)
    ELSE IF Len(prefix) > Len(t) THEN FALSE
    ELSE IF Len(prefix) >= 16 THEN matches_prefix_sse2(t, prefix)
    ELSE starts_with(t, prefix)

matches_suffix_simd(t, suffix) == ends_with(t, suffix)

matches_pattern_simd(t, pat, simd) ==
    IF pat = <<Star>> THEN TRUE
    ELSE IF pat = <<>> THEN t = <<>>
    ELSE IF strip_suffix_star(pat) # <<>>
         THEN matches_prefix_simd(t, strip_suffix_star(pat)[1], simd)
    ELSE IF strip_prefix_star(pat) # <<>>
         THEN matches_suffix_simd(t, strip_prefix_star(pat)[1])
    ELSE t = pat

(***************************************************************************)
(* Channel classification                                                  *)
(***************************************************************************)
\* "R", "G", "B", "A"
BasicRGB == {<<82>>, <<71>>, <<66>>, <<65>>}

\* channel_name.find('.'): the 1-based index of the first '.', 0 for None
RECURSIVE FindDot(_, _)
FindDot(name, i) ==
    IF i > Len(name) THEN 0 ELSE IF name[i] = 46 THEN i ELSE FindDot(name, i + 1)

\* the prefix: the text before the first '.', or the whole name
Prefix(name) ==
    IF FindDot(name, 1) > 0 THEN SubSeq(name, 1, FindDot(name, 1) - 1) ELSE name

\* CHANNEL_PREFIX_MAP (simd_patterns.rs 95-126)
CHANNEL_PREFIX_MAP ==
       <<66, 101, 97, 117, 116, 121>> :> "base"    \* Beauty
    @@ <<82>> :> "base"    \* R
    @@ <<71>> :> "base"    \* G
    @@ <<66>> :> "base"    \* B
    @@ <<65>> :> "base"    \* A
    @@ <<66, 97, 99, 107, 103, 114, 111, 117, 110, 100>> :> "scene"    \* Background
    @@ <<84, 114, 97, 110, 115, 108, 117, 99, 101, 110, 99, 121>> :> "scene"    \* Translucency
    @@ <<84, 114, 97, 110, 115, 108, 117, 99, 101, 110, 99, 121, 48>> :> "scene"    \* Translucency0
    @@ <<86, 105, 114, 116, 117, 97, 108, 66, 101, 97, 117, 116, 121>> :> "scene"    \* VirtualBeauty
    @@ <<90, 68, 101, 112, 116, 104>> :> "scene"    \* ZDepth
    @@ <<82, 101, 110, 100, 101, 114, 83, 116, 97, 109, 112>> :> "technical"    \* RenderStamp
    @@ <<82, 101, 110, 100, 101, 114, 83, 116, 97, 109, 112, 48>> :> "technical"    \* RenderStamp0
    @@ <<83, 107, 121>> :> "light"    \* Sky
    @@ <<83, 117, 110>> :> "light"    \* Sun
    @@ <<76, 105, 103, 104, 116, 77, 105, 120>> :> "light"    \* LightMix
    @@ <<67, 114, 121, 112, 116, 111, 109, 97, 116, 116, 101>> :> "cryptomatte"    \* Cryptomatte
    @@ <<67, 114, 121, 112, 116, 111, 109, 97, 116, 116, 101, 48>> :> "cryptomatte"    \* Cryptomatte0

\* determine_channel_group_ultra_fast falling back to "scene"
determine_channel_group_ultra_fast_scene(name, simd) ==
    IF name \in BasicRGB THEN "base"
    ELSE IF Prefix(name) \in DOMAIN CHANNEL_PREFIX_MAP
         THEN CHANNEL_PREFIX_MAP[Prefix(name)]
    ELSE IF matches_pattern_simd(Prefix(name), <<76, 105, 103, 104, 116, 42>>, simd) THEN "light"
    ELSE "scene"

\* determine_channel_group_ultra_fast (simd_patterns.rs 129-158)
determine_channel_group_ultra_fast(name, simd) ==
    IF name \in BasicRGB THEN "base"
    ELSE IF Prefix(name) \in DOMAIN CHANNEL_PREFIX_MAP
         THEN CHANNEL_PREFIX_MAP[Prefix(name)]
    ELSE IF matches_pattern_simd(Prefix(name), <<76, 105, 103, 104, 116, 42>>, simd) THEN "light"
    ELSE IF \/ matches_pattern_simd(Prefix(name), <<73, 68, 42>>, simd)
            \/ matches_pattern_simd(Prefix(name), <<95, 42>>, simd)
         THEN "scene_objects"
    ELSE "scene_objects"

\* GROUP_NAME_CACHE (main.rs 16-27)
GROUP_NAME_CACHE ==
       "base" :> "Base"
    @@ "scene" :> "Scene"
    @@ "technical" :> "Technical"
    @@ "light" :> "Light"
    @@ "cryptomatte" :> "Cryptomatte"
    @@ "scene_objects" :> "Scene Objects"
    @@ "basic_rgb" :> "Basic RGB"
    @@ "other" :> "Other"

\* create_default_config (main.rs 66-127)
create_default_config ==
    [config |->
        [basic_rgb_channels |-> <<<<82>>, <<71>>, <<66>>, <<65>>>>,
         group_priority_order |->
            <<"cryptomatte", "light", "scene", "technical", "scene_objects">>,
         fallback_names |-> [basic_rgb |-> "Basic RGB", default |-> "Other"],
         paths |-> [data_folder |-> "data"]],
     groups |->
           "base" :> [name |-> "Base",
              prefixes |-> <<<<66, 101, 97, 117, 116, 121>>>>,
              patterns |-> <<>>,
              basic_rgb |-> TRUE]
        @@ "scene" :> [name |-> "Scene",
              prefixes |-> <<<<66, 97, 99, 107, 103, 114, 111, 117, 110, 100>>, <<84, 114, 97, 110, 115, 108, 117, 99, 101, 110, 99, 121>>, <<84, 114, 97, 110, 115, 108, 117, 99, 101, 110, 99, 121, 48>>, <<86, 105, 114, 116, 117, 97, 108, 66, 101, 97, 117, 116, 121>>, <<90, 68, 101, 112, 116, 104>>>>,
              patterns |-> <<>>,
              basic_rgb |-> FALSE]
        @@ "technical" :> [name |-> "Technical",
              prefixes |-> <<<<82, 101, 110, 100, 101, 114, 83, 116, 97, 109, 112>>, <<82, 101, 110, 100, 101, 114, 83, 116, 97, 109, 112, 48>>>>,
              patterns |-> <<>>,
              basic_rgb |-> FALSE]
        @@ "light" :> [name |-> "Light",
              prefixes |-> <<<<83, 107, 121>>, <<83, 117, 110>>, <<76, 105, 103, 104, 116, 77, 105, 120>>>>,
              patterns |-> <<<<76, 105, 103, 104, 116, 42>>>>,
              basic_rgb |-> FALSE]
        @@ "cryptomatte" :> [name |-> "Cryptomatte",
              prefixes |-> <<<<67, 114, 121, 112, 116, 111, 109, 97, 116, 116, 101>>, <<67, 114, 121, 112, 116, 111, 109, 97, 116, 116, 101, 48>>>>,
              patterns |-> <<>>,
              basic_rgb |-> FALSE]
        @@ "scene_objects" :> [name |-> "Scene Objects",
              prefixes |-> <<>>,
              patterns |-> <<<<73, 68, 42>>, <<95, 42>>>>,
              basic_rgb |-> FALSE],
     default_group |-> "Other"]

\* GROUP_NAME_CACHE.get(key).cloned().unwrap_or_else(|| otherwise)
CachedName(key, otherwise) ==
    IF key \in DOMAIN GROUP_NAME_CACHE THEN GROUP_NAME_CACHE[key] ELSE otherwise

Range(seq) == {seq[i] : i \in 1..Len(seq)}

\* the group definition matches the prefix: main.rs 351-364
GroupMatches(group_def, prefix) ==
    \/ prefix \in Range(group_def.prefixes)
    \/ \E i \in 1..Len(group_def.patterns) :
          matches_pattern(prefix, group_def.patterns[i])

\* GroupByPriority returning the last matching group of the list
GroupByPriorityLast(prefix, cfg, i) ==
    LET order == cfg.config.group_priority_order
        hits == {j \in i..Len(order) :
                    /\ order[j] \in DOMAIN cfg.groups
                    /\ GroupMatches(cfg.groups[order[j]], prefix)}
    IN  IF hits = {}
        THEN IF "scene_objects" \in DOMAIN cfg.groups
             THEN CachedName("scene_objects", cfg.config.fallback_names.default)
             ELSE CachedName("other", cfg.config.fallback_names.default)
        ELSE LET last == CHOOSE j \in hits : \A k \in hits : k <= j IN
             CachedName(order[last], cfg.groups[order[last]].name)

\* the loop over group_priority_order from its i-th key (main.rs 348-366)
\* and the default after it (main.rs 369-375)
RECURSIVE GroupByPriority(_, _, _)
GroupByPriority(prefix, cfg, i) ==
    IF i > Len(cfg.config.group_priority_order)
    THEN IF "scene_objects" \in DOMAIN cfg.groups
         THEN CachedName("scene_objects", cfg.config.fallback_names.default)
         ELSE CachedName("other", cfg.config.fallback_names.default)
    ELSE LET group_key == cfg.config.group_priority_order[i] IN
         IF /\ group_key \in DOMAIN cfg.groups
            /\ GroupMatches(cfg.groups[group_key], prefix)
         THEN CachedName(group_key, cfg.groups[group_key].name)
         ELSE GroupByPriority(prefix, cfg, i + 1)

\* determine_channel_group (main.rs 328-376).  The name of the basic_rgb
\* group found stands behind the cache's entry for "base", which exists.
determine_channel_group(name, cfg) ==
    IF name \in BasicRGB
    THEN IF \E k \in DOMAIN cfg.groups : cfg.groups[k].basic_rgb
         THEN CachedName("base",
                  cfg.groups[CHOOSE k \in DOMAIN cfg.groups :
                                 cfg.groups[k].basic_rgb].name)
         ELSE CachedName("basic_rgb", cfg.config.fallback_names.basic_rgb)
    ELSE GroupByPriority(Prefix(name), cfg, 1)

(***************************************************************************)
(* The files parsed.  Every u32 field of a file is below 2^31, so that its *)
(* value is a number TLC can hold; i32 fields take any four bytes.         *)
(***************************************************************************)
\* The most attribute records in a file built from the menu.
MaxAttrs == 2

\* a buffer holding the bytes given
Lit(bytes) == << <<bytes, 0, 0>> >>

\* the bytes given, then the byte b n times
LitFill(bytes, b, n) == << <<bytes, b, n>> >>

LE32(v) ==
    <<v % 256, (v \div 256) % 256, (v \div 65536) % 256, (v \div 16777216) % 256>>

CStr(str) == str \o <<0>>

\* one attribute record: name, type tag, declared size, payload
Record(name, type, size, payload) ==
    CStr(name) \o CStr(type) \o LE32(size) \o payload

\* one channel record; the reserved bytes are 7, 8, 9
ChannelRecord(name, pixel_type, p_linear, xs, ys) ==
    CStr(name) \o LE32(pixel_type) \o <<p_linear, 7, 8, 9>> \o LE32(xs) \o LE32(ys)

Header == LE32(MagicNumber) \o LE32(2)

Terminator == <<0>>

Menu ==
    { \* displayWindow (0, 0, 1919, 1079)
      Record(NameDisplayWindow, <<98>>, 16,
             LE32(0) \o LE32(0) \o LE32(1919) \o LE32(1079)),
      \* displayWindow (-1, -2147483647, 2147483647, 10)
      Record(NameDisplayWindow, <<98>>, 16,
             <<255, 255, 255, 255, 1, 0, 0, 128, 255, 255, 255, 127>> \o LE32(10)),
      \* displayWindow declared 20 bytes long: (-1, -2, 3, 4) and four more
      Record(NameDisplayWindow, <<98>>, 20,
             <<255, 255, 255, 255, 254, 255, 255, 255>> \o LE32(3) \o LE32(4)
                 \o <<5, 0, 0, 0>>),
      Record(NameDisplayWindow, <<>>, 8, LE32(1) \o LE32(2)),
      \* pixelAspectRatio 2.0
      Record(NamePixelAspectRatio, <<102>>, 4, LE32(1073741824)),
      Record(NamePixelAspectRatio, <<102>>, 6, LE32(1073741824) \o <<0, 0>>),
      Record(NamePixelAspectRatio, <<102>>, 2, <<1, 2>>),
      Record(NameCompression, <<99>>, 1, <<3>>),
      Record(NameCompression, <<99>>, 0, <<>>),
      Record(NameCompression, <<99>>, 2, <<11, 1>>),
      Record(NameLineOrder, <<108>>, 1, <<1>>),
      Record(NameLineOrder, <<108>>, 3, <<9, 1, 1>>),
      Record(NameName, <<115>>, 3, <<97, 98, 99>>),
      Record(NameName, <<115>>, 0, <<>>),
      \* unrecognized names: x, xy, z
      Record(<<120>>, <<116>>, 1, <<97>>),
      Record(<<120, 121>>, <<>>, 2, <<1, 97>>),
      Record(<<120>>, <<116, 116>>, 0, <<>>),
      Record(<<122>>, <<116>>, 65, [i \in 1..65 |-> 97]),
      Record(<<122>>, <<116>>, 3, <<255, 97, 32>>),
      \* x again: a tab, '~', a space
      Record(<<120>>, <<116>>, 3, <<9, 126, 32>>),
      \* channels: R (Half) and the empty name
      Record(NameChannels, <<99>>, 19,
             ChannelRecord(<<82>>, 1, 0, 1, 1) \o <<0>>),
      \* channels: R (Float), G (UInt), the span ends with the last record
      Record(NameChannels, <<99>>, 36,
             ChannelRecord(<<82>>, 2, 1, 1, 1) \o ChannelRecord(<<71>>, 0, 0, 2, 2)),
      \* channels: the empty name three bytes before the span ends
      Record(NameChannels, <<99>>, 22,
             ChannelRecord(<<82>>, 1, 0, 1, 1) \o <<0, 1, 0, 0>>),
      \* channels: A (UInt), pLinear 2, reserved bytes 0, sampling (1, -1)
      Record(NameChannels, <<99>>, 19,
             CStr(<<65>>) \o LE32(0) \o <<2, 0, 0, 0>> \o LE32(1)
                 \o <<255, 255, 255, 255>> \o <<0>>),
      \* channels: pixel type 5
      Record(NameChannels, <<99>>, 19,
             ChannelRecord(<<82>>, 5, 0, 1, 1) \o <<0>>),
      \* channels: a span shorter than its one record
      Record(NameChannels, <<99>>, 4, ChannelRecord(<<82>>, 1, 0, 1, 1)),
      \* channels: a span longer than the rest of the file
      Record(NameChannels, <<99>>, 100, ChannelRecord(<<82>>, 1, 0, 1, 1))
    }

RECURSIVE Flatten(_)
Flatten(recs) == IF recs = <<>> THEN <<>> ELSE Head(recs) \o Flatten(Tail(recs))

AttrSeqs == UNION {[1..n -> Menu] : n \in 0..MaxAttrs}

\* well-formed streams: up to MaxAttrs records and the empty name
WholeFiles == {Lit(Header \o Flatten(recs) \o Terminator) : recs \in AttrSeqs}

\* every prefix of a one-record file
CutFiles ==
    UNION {{Lit(SubSeq(Header \o rec \o Terminator, 1, c)) :
              c \in 0..Len(Header \o rec \o Terminator)} : rec \in Menu}

\* the magic number off by one, byte-swapped, zero
BadMagics == {MagicNumber + 1, 1983983873, 0, MagicNumber + 256}

BadMagicFiles ==
    {Lit(LE32(m) \o LE32(2) \o rec \o Terminator) : m \in BadMagics, rec \in Menu}
      \cup {Lit(LE32(m)) : m \in BadMagics}

\* the header and an unrecognized attribute (x, type t) whose payload of
\* bytes 97 ends at byte `upto` of the file
Padded(upto) ==
    LitFill(Header \o Record(<<120>>, <<116>>, upto - 16, <<>>), 97, upto - 16)

Compression3 == Record(NameCompression, <<99>>, 1, <<3>>)

BigFiles ==
    { \* a record ends where the header buffer ends; more records follow
      Padded(HeaderReadSize) \o Lit(Compression3 \o Terminator),
      Padded(HeaderReadSize) \o LitFill(Compression3 \o Terminator, 0, MmapThreshold),
      \* the header buffer ends inside a record
      Padded(HeaderReadSize - 5) \o Lit(Compression3 \o Terminator),
      Padded(HeaderReadSize - 14)
          \o LitFill(Compression3 \o Terminator, 0, MmapThreshold),
      \* the stream ends before the header buffer does; pixel data follows
      LitFill(Header \o Compression3 \o Terminator, 1, HeaderReadSize),
      LitFill(Header \o Compression3 \o Terminator, 1, MmapThreshold),
      Padded(HeaderReadSize - 1) \o LitFill(Terminator, 1, MmapThreshold),
      \* files of exactly HeaderReadSize, MmapThreshold and one byte more
      LitFill(Header \o Compression3 \o Terminator, 0, HeaderReadSize - 25),
      LitFill(Header \o Compression3 \o Terminator, 0, HeaderReadSize - 24),
      LitFill(Header \o Compression3 \o Terminator, 0, MmapThreshold - 25),
      LitFill(Header \o Compression3 \o Terminator, 0, MmapThreshold - 24)
    }

Files == WholeFiles \cup CutFiles \cup BadMagicFiles \cup BigFiles

(***************************************************************************)
(* The parser's specification                                              *)
(***************************************************************************)
Init ==
    /\ file \in Files
    /\ data = Lit(<<>>)
    /\ position = 0
    /\ pc = "open"
    /\ run = 1
    /\ err = NoError
    /\ metadata = DefaultMetadata
    /\ attr = NoAttr
    /\ chan = NoChan
    /\ lastOp = NoOp
    /\ first = <<"none">>
    /\ task = "none"
    /\ config = create_default_config
    /\ channel_name = <<>>
    /\ text = <<>>
    /\ pattern = <<>>
    /\ sse2 = FALSE
    /\ group = <<>>
    /\ group_fast = <<>>
    /\ matched = <<>>
    /\ matched_simd = <<>>
    /\ batch = NoBatch
    /\ grouping = NoGrouping

Next ==
    \/ FromFileMapped
    \/ FromFileDirect
    \/ ReadMagic
    \/ ReadVersion
    \/ AttrLoopExit
    \/ ReadAttrName
    \/ ReadAttrType
    \/ ReadAttrSize
    \/ DispatchChannels
    \/ DispatchDisplayWindow
    \/ ReadDisplayWindow
    \/ DispatchPixelAspectRatio
    \/ DispatchCompression
    \/ SkipCompressionRest
    \/ DispatchLineOrder
    \/ SkipLineOrderRest
    \/ DispatchName
    \/ DispatchUnknown
    \/ RecoverUnknown
    \/ ChannelLoopExit
    \/ ReadChannelName
    \/ ReadPixelType
    \/ ReadPLinear
    \/ SkipReserved
    \/ ReadXSampling
    \/ ReadYSampling
    \/ ParseWholeFile

Spec == Init /\ [][Next]_vars

\* parse_metadata is a sequential function: the thread that runs it takes
\* its next step as long as there is one
SpecFair == Init /\ [][Next]_vars /\ WF_vars(Next)

(***************************************************************************)
(* The classifiers' specification.  A behaviour takes one channel name of  *)
(* a parsed header through determine_channel_group, as process_exr_file    *)
(* does for each channel (main.rs 288-294), and through                    *)
(* determine_channel_group_ultra_fast; or one text and one pattern through *)
(* matches_pattern and matches_pattern_simd.                               *)
(***************************************************************************)
MaxTextLen == 3

\* the 16 bytes of an SSE2 register
LaneBytes == 16

\* 'a', 'b', '*'
Alphabet == {97, 98, Star}

Strings(n) == UNION {[1..k -> Alphabet] : k \in 0..n}

Fill(b, n) == [i \in 1..n |-> b]

\* texts around one and two registers' lengths
LongTexts ==
    { Fill(97, LaneBytes - 1),
      Fill(97, LaneBytes),
      Fill(97, LaneBytes + 1),
      Fill(97, LaneBytes - 1) \o <<98>>,
      Fill(97, LaneBytes) \o <<98>>,
      <<98>> \o Fill(97, LaneBytes),
      Fill(97, 2 * LaneBytes),
      Fill(97, 2 * LaneBytes - 1) \o <<98>>,
      Fill(97, LaneBytes) \o <<98>> \o Fill(97, LaneBytes) }

Texts ==
    Strings(MaxTextLen) \cup LongTexts \cup
    { <<120>>,    \* "x"
      <<121>>,    \* "y"
      <<116, 101, 115, 116>>,    \* "test"
      <<83, 107, 121>>,    \* "Sky"
      <<76, 105, 103, 104, 116, 77, 105, 120>>,    \* "LightMix"
      <<66, 97, 99, 107, 103, 114, 111, 117, 110, 100>> }    \* "Background"

Patterns ==
    Strings(MaxTextLen) \cup LongTexts
        \cup {t \o <<Star>> : t \in LongTexts}
        \cup {<<Star>> \o t : t \in LongTexts} \cup
    { <<121>>,    \* "y"
      <<42, 107, 121>>,    \* "*ky"
      <<76, 105, 103, 104, 116, 42>>,    \* "Light*"
      <<66, 97, 99, 107, 42>>,    \* "Back*"
      <<111, 116, 104, 101, 114, 42>> }    \* "other*"

ChannelPrefixes ==
    { <<66, 101, 97, 117, 116, 121>>,    \* "Beauty"
      <<82>>,    \* "R"
      <<71>>,    \* "G"
      <<66>>,    \* "B"
      <<65>>,    \* "A"
      <<66, 97, 99, 107, 103, 114, 111, 117, 110, 100>>,    \* "Background"
      <<84, 114, 97, 110, 115, 108, 117, 99, 101, 110, 99, 121>>,    \* "Translucency"
      <<84, 114, 97, 110, 115, 108, 117, 99, 101, 110, 99, 121, 48>>,    \* "Translucency0"
      <<86, 105, 114, 116, 117, 97, 108, 66, 101, 97, 117, 116, 121>>,    \* "VirtualBeauty"
      <<90, 68, 101, 112, 116, 104>>,    \* "ZDepth"
      <<82, 101, 110, 100, 101, 114, 83, 116, 97, 109, 112>>,    \* "RenderStamp"
      <<82, 101, 110, 100, 101, 114, 83, 116, 97, 109, 112, 48>>,    \* "RenderStamp0"
      <<83, 107, 121>>,    \* "Sky"
      <<83, 117, 110>>,    \* "Sun"
      <<76, 105, 103, 104, 116, 77, 105, 120>>,    \* "LightMix"
      <<67, 114, 121, 112, 116, 111, 109, 97, 116, 116, 101>>,    \* "Cryptomatte"
      <<67, 114, 121, 112, 116, 111, 109, 97, 116, 116, 101, 48>>,    \* "Cryptomatte0"
      <<76, 105, 103, 104, 116>>,    \* "Light"
      <<76, 105, 103, 104, 116, 83, 101, 108, 101, 99, 116>>,    \* "LightSelect"
      <<76, 105, 103, 104, 116, 115>>,    \* "Lights"
      <<108, 105, 103, 104, 116>>,    \* "light"
      <<73, 68, 48>>,    \* "ID0"
      <<73, 68>>,    \* "ID"
      <<73>>,    \* "I"
      <<95, 119, 97, 108, 108, 115>>,    \* "_walls"
      <<95>>,    \* "_"
      <<70, 111, 111>>,    \* "Foo"
      <<66, 101, 97, 117, 116, 121, 48>>,    \* "Beauty0"
      <<83, 117, 110, 110, 121>>,    \* "Sunny"
      <<>> }    \* ""

ChannelSuffixes ==
    { <<>>,    \* ""
      <<46, 114, 101, 100>>,    \* ".red"
      <<46, 98, 108, 117, 101>>,    \* ".blue"
      <<46>>,    \* "."
      <<46, 97, 46, 98>> }    \* ".a.b"

ChannelNames == {p \o s : p \in ChannelPrefixes, s \in ChannelSuffixes}

\* a configuration read from channel_groups.json that lacks the group key
WithoutGroup(cfg, key) ==
    [cfg EXCEPT !.groups = [k \in DOMAIN cfg.groups \ {key} |-> cfg.groups[k]]]

\* the default configuration with display names of the user's: the base
\* group is "Primary", the light group "Lighting", the basic-RGB fallback
\* label "RGB"
Renamed ==
    [create_default_config EXCEPT
        !.groups["base"].name = "Primary",
        !.groups["light"].name = "Lighting",
        !.config.fallback_names.basic_rgb = "RGB"]

\* the default configuration whose scene objects also take every L* and
\* whose cryptomatte group also lists LightMix: the light group comes
\* between the two in the priority order
Overlapping ==
    [create_default_config EXCEPT
        !.groups["scene_objects"].patterns = Append(@, <<76, 42>>),
        !.groups["cryptomatte"].prefixes = Append(@, <<76, 105, 103, 104, 116, 77, 105, 120>>)]

\* another priority order: it lists a key with no group and the key of a
\* group of the user's, "extra" (Foo, *s), and leaves out the scene group
Reordered ==
    [create_default_config EXCEPT
        !.config.group_priority_order =
            <<"scene_objects", "missing", "extra", "light", "base", "technical">>,
        !.groups = @ @@ ("extra" :> [name |-> "Extra",
                                     prefixes |-> <<<<70, 111, 111>>>>,
                                     patterns |-> <<<<42, 115>>>>,
                                     basic_rgb |-> FALSE])]

\* the configurations load_channel_config yields (main.rs 129-143): the
\* default one, and edited ones
Configs ==
    { create_default_config,
      WithoutGroup(create_default_config, "base"),
      WithoutGroup(create_default_config, "scene_objects"),
      Renamed,
      WithoutGroup(Renamed, "base"),
      Overlapping,
      Reordered }

NoText == <<>>

InitClassify ==
    /\ task \in {"classify", "match"}
    /\ config \in IF task = "classify" THEN Configs ELSE {create_default_config}
    /\ channel_name \in IF task = "classify" THEN ChannelNames ELSE {NoText}
    /\ text \in IF task = "match" THEN Texts ELSE {NoText}
    /\ pattern \in IF task = "match" THEN Patterns ELSE {NoText}
    /\ sse2 \in BOOLEAN
    /\ group = <<>>
    /\ group_fast = <<>>
    /\ matched = <<>>
    /\ matched_simd = <<>>
    /\ batch = NoBatch
    /\ grouping = NoGrouping
    /\ file = Lit(<<>>)
    /\ data = Lit(<<>>)
    /\ position = 0
    /\ pc = "idle"
    /\ run = 1
    /\ err = NoError
    /\ metadata = DefaultMetadata
    /\ attr = NoAttr
    /\ chan = NoChan
    /\ lastOp = NoOp
    /\ first = <<"none">>

\* main.rs 291
Classify ==
    /\ task = "classify"
    /\ group = <<>>
    /\ group' = <<determine_channel_group(channel_name, config)>>
    /\ UNCHANGED <<parserVars, poolVars, task, config, channel_name, text, pattern, sse2,
                   group_fast, matched, matched_simd>>

ClassifyUltraFast ==
    /\ task = "classify"
    /\ group_fast = <<>>
    /\ group_fast' = <<determine_channel_group_ultra_fast(channel_name, sse2)>>
    /\ UNCHANGED <<parserVars, poolVars, task, config, channel_name, text, pattern, sse2,
                   group, matched, matched_simd>>

MatchPattern ==
    /\ task = "match"
    /\ matched = <<>>
    /\ matched' = <<matches_pattern(text, pattern)>>
    /\ UNCHANGED <<parserVars, poolVars, task, config, channel_name, text, pattern, sse2,
                   group, group_fast, matched_simd>>

MatchPatternSimd ==
    /\ task = "match"
    /\ matched_simd = <<>>
    /\ matched_simd' = <<matches_pattern_simd(text, pattern, sse2)>>
    /\ UNCHANGED <<parserVars, poolVars, task, config, channel_name, text, pattern, sse2,
                   group, group_fast, matched>>

NextClassify ==
    \/ Classify
    \/ ClassifyUltraFast
    \/ MatchPattern
    \/ MatchPatternSimd

SpecClassify == InitClassify /\ [][NextClassify]_vars


(***************************************************************************)
(* Properties of the parser                                                *)
(***************************************************************************)
\* the buffer's first four bytes, read little-endian, are another number
\* than the magic number
BadMagic == BLen(data) >= 4 /\ U32LE(Bytes(data, 0, 4)) # MagicNumber

\* C1: a buffer whose first 4 bytes are not 20000630 makes parse_metadata
\* fail with the invalid-magic error; when it fails the cursor stands at 4,
\* the one cursor operation made is the read of the magic, and no version
\* word, attribute name, type, size or payload was read.
C1_InvalidMagic ==
    (pc # "open" /\ BadMagic) =>
        /\ pc \in {"magic", "failed"}
        /\ attr = NoAttr /\ chan = NoChan /\ metadata = DefaultMetadata
        /\ pc = "magic" => position = 0 /\ err = NoError
        /\ pc = "failed" =>
              /\ err = InvalidMagicNumber
              /\ position = 4
              /\ lastOp = [op |-> "read_u32", need |-> 4, before |-> 0, ok |-> TRUE]

\* a file with a bad magic number and attribute records after it has failed
C1_Witness ==
    /\ BadMagic /\ BLen(data) > 8
    /\ pc = "failed" /\ err = InvalidMagicNumber

\* the parse is back at the head of the attribute loop: the handler of the
\* record in attr has returned without an error
Handled == pc = "attr_loop" /\ attr.name # <<>>

\* C2: every dispatch branch consumes exactly the declared size: once a
\* record's handler has succeeded, the cursor stands at the first payload
\* byte plus the declared size.
C2_ConsumesDeclaredSize == Handled => position = attr.payload + attr.size

UnknownHandled == Handled /\ attr.name \notin KnownNames

\* C3, as claimed: after an unknown attribute the cursor stands at the
\* position before its name plus 8 + len(n)+1 + len(t)+1 + S.
C3_Overhead8 ==
    UnknownHandled =>
        position = attr.start + 8 + (Len(attr.name_bytes) + 1)
                       + (Len(attr.type_bytes) + 1) + attr.size

\* C3, amended: after an unknown attribute with name n, type tag t and
\* declared size S the cursor stands at the position before its name plus
\* (len(n)+1) + (len(t)+1) + 4 + S, len counting the bytes of the string in
\* the buffer; the size field is 4 bytes, the record's overhead is not 8.
C3_Overhead4 ==
    UnknownHandled =>
        position = attr.start + (Len(attr.name_bytes) + 1)
                       + (Len(attr.type_bytes) + 1) + 4 + attr.size

\* unknown attributes were handled: one kept as a custom attribute, one not
C3_Witness ==
    /\ UnknownHandled
    /\ attr.size = 65
    /\ DOMAIN metadata.custom_attributes # {}
    /\ attr.name \notin DOMAIN metadata.custom_attributes

\* the bytes read_u8, read_u32, read_i32, read_f32 need
FixedNeed(op) == IF op = "read_u8" THEN 1 ELSE 4

\* C4: the position stays within 0..data.len(), and read_u8, read_u32,
\* read_i32, read_f32, read_fixed_string(n) and skip(n) either succeed and
\* advance the position by 1, 4, 4, 4, n and n, or fail with end-of-data and
\* leave it where it was; they fail exactly when fewer bytes remain.
C4_CursorBounds ==
    /\ 0 <= position /\ position <= BLen(data)
    /\ lastOp.op \in {"read_u8", "read_u32", "read_i32", "read_f32"} =>
          lastOp.need = FixedNeed(lastOp.op)
    /\ lastOp.op \in {"read_u8", "read_u32", "read_i32", "read_f32",
                      "read_fixed_string", "skip"} =>
          /\ lastOp.ok <=> (BLen(data) - lastOp.before >= lastOp.need)
          /\ lastOp.ok => position = lastOp.before + lastOp.need
          /\ ~lastOp.ok =>
                /\ position = lastOp.before
                /\ pc \in {"failed", "unknown_recover"}
                /\ pc = "failed" => err = UnexpectedEndOfData

\* a read_fixed_string of several bytes failed one byte short of its need
C4_Witness ==
    /\ lastOp.op = "read_fixed_string" /\ ~lastOp.ok
    /\ lastOp.need > 1
    /\ BLen(data) - lastOp.before = lastOp.need - 1

\* C5: the parse of the capped buffer returns what the parse of the whole
\* file returns, or fails with end-of-data.
C5_CapKeepsResult ==
    (run = 2 /\ Finished) =>
        (first = Outcome \/ first = <<"Err", UnexpectedEndOfData>>)

\* the state after parse_channels met an empty name where a byte was left
AfterEmptyName ==
    /\ pc = "attr_loop"
    /\ chan.broke
    /\ lastOp.op = "read_null_terminated_string"
    /\ lastOp.before < BLen(data)

\* C6: an empty channel name met before the span is exhausted stops
\* parse_channels without error, with the channels parsed so far, the cursor
\* just past the terminator byte: the rest of the span is not consumed.
C6_EarlyTerminator ==
    AfterEmptyName =>
        /\ lastOp.before < chan.start_pos + chan.size
        /\ ByteAt(data, lastOp.before) = 0
        /\ position = lastOp.before + 1
        /\ err = NoError
        /\ metadata.channels = chan.channels

\* the empty name was met with bytes of the span left, after one channel
C6_Witness ==
    /\ AfterEmptyName
    /\ position < chan.start_pos + chan.size
    /\ Len(metadata.channels) = 1

\* the state after the last read of a channel record succeeded
RecordRead ==
    /\ lastOp.op = "read_i32" /\ lastOp.ok
    /\ pc \in {"ch_loop", "failed"}

IsPrefix(a, b) ==
    /\ BLen(a) <= BLen(b)
    /\ \A i \in 0..(BLen(a) - 1) : ByteAt(a, i) = ByteAt(b, i)

\* C8: from_file hands the parser the first min(L, 65536) bytes of the file
\* and position 0, on the memory-mapped path and on the direct one.
C8_HeaderBuffer ==
    (run = 1 /\ pc = "magic") =>
        /\ BLen(data) = Min(BLen(file), 65536)
        /\ IsPrefix(data, file)
        /\ position = 0

\* a file of more than a mebibyte was mapped and 65536 bytes handed over
C8_Witness ==
    /\ run = 1 /\ pc = "magic"
    /\ BLen(file) > 1048576
    /\ BLen(data) = 65536

(***************************************************************************)
(* Properties of the classifiers                                           *)
(***************************************************************************)
\* the configured classifier has named the channel under the default configuration
Configured(name) ==
    /\ task = "classify"
    /\ config = create_default_config
    /\ channel_name = name
    /\ group # <<>>

\* the fast classifier has named the channel
Fast(name) ==
    /\ task = "classify"
    /\ channel_name = name
    /\ group_fast # <<>>

\* the fast classifier's result as the specification words it
FastGroupOf(name) ==
    IF name \in {<<82>>, <<71>>, <<66>>, <<65>>} THEN "base"
    ELSE LET dots == {i \in 1..Len(name) : name[i] = 46}
             before == IF dots = {} THEN name
                       ELSE SubSeq(name, 1, (CHOOSE i \in dots : \A j \in dots : i <= j) - 1)
         IN  IF before \in DOMAIN CHANNEL_PREFIX_MAP THEN CHANNEL_PREFIX_MAP[before]
             ELSE IF Len(before) >= 5 /\ SubSeq(before, 1, 5) = <<76, 105, 103, 104, 116>> THEN "light"
             ELSE "scene_objects"

\* C9: with the default configuration R is Base, LightMix.blue is Light,
\* Background.red is Scene, ID0.red and _walls.blue are Scene Objects, from
\* determine_channel_group as display names and from
\* determine_channel_group_ultra_fast as group keys; the fast classifier gives
\* base for R/G/B/A, else the table's group of the prefix before the first
\* '.', else light for a prefix starting with Light, else scene_objects, and
\* base for Beauty.red.
C9_Classification ==
    /\ Configured(<<82>>) => group = <<"Base">>
    /\ Configured(<<76, 105, 103, 104, 116, 77, 105, 120, 46, 98, 108, 117, 101>>) => group = <<"Light">>
    /\ Configured(<<66, 97, 99, 107, 103, 114, 111, 117, 110, 100, 46, 114, 101, 100>>) => group = <<"Scene">>
    /\ Configured(<<73, 68, 48, 46, 114, 101, 100>>) => group = <<"Scene Objects">>
    /\ Configured(<<95, 119, 97, 108, 108, 115, 46, 98, 108, 117, 101>>) => group = <<"Scene Objects">>
    /\ Fast(<<82>>) => group_fast = <<"base">>
    /\ Fast(<<76, 105, 103, 104, 116, 77, 105, 120, 46, 98, 108, 117, 101>>) => group_fast = <<"light">>
    /\ Fast(<<66, 97, 99, 107, 103, 114, 111, 117, 110, 100, 46, 114, 101, 100>>) => group_fast = <<"scene">>
    /\ Fast(<<73, 68, 48, 46, 114, 101, 100>>) => group_fast = <<"scene_objects">>
    /\ Fast(<<95, 119, 97, 108, 108, 115, 46, 98, 108, 117, 101>>) => group_fast = <<"scene_objects">>
    /\ Fast(<<66, 101, 97, 117, 116, 121, 46, 114, 101, 100>>) => group_fast = <<"base">>
    /\ Fast(channel_name) => group_fast = <<FastGroupOf(channel_name)>>

\* both classifiers have put ID0.red under the scene objects
C9_Witness ==
    /\ Configured(<<73, 68, 48, 46, 114, 101, 100>>) /\ group = <<"Scene Objects">>
    /\ Fast(<<73, 68, 48, 46, 114, 101, 100>>) /\ group_fast = <<"scene_objects">>

\* the text begins with p
HasPrefix(t, p) == \E k \in 0..Len(t) : SubSeq(t, 1, k) = p

\* the text ends with s
HasSuffix(t, s) == \E k \in 0..Len(t) : SubSeq(t, k + 1, Len(t)) = s

\* the pattern semantics as the specification words them
PatternSemantics(t, pat) ==
    \/ pat = <<Star>>
    \/ \E p \in {SubSeq(pat, 1, k) : k \in 0..Len(pat)} :
          pat = p \o <<Star>> /\ HasPrefix(t, p)
    \/ /\ ~(Len(pat) >= 1 /\ pat[Len(pat)] = Star)
       /\ \E sfx \in {SubSeq(pat, k + 1, Len(pat)) : k \in 0..Len(pat)} :
             pat = <<Star>> \o sfx /\ HasSuffix(t, sfx)
    \/ /\ ~(Len(pat) >= 1 /\ pat[1] = Star)
       /\ ~(Len(pat) >= 1 /\ pat[Len(pat)] = Star)
       /\ pat = t

\* both matchers have answered for the text and the pattern
Matched(t, pat) ==
    /\ task = "match"
    /\ text = t /\ pattern = pat
    /\ matched # <<>> /\ matched_simd # <<>>

\* C10: matches_pattern and matches_pattern_simd return true exactly when
\* the pattern is '*', or is P followed by '*' and the text has prefix P, or
\* does not end in '*' and is '*' followed by S and the text has suffix S, or
\* has no leading or trailing wildcard and equals the text; so (x, *),
\* (LightMix, Light*) and (Sky, *ky) match and (x, y), (test, other*) do not.
C10_PatternSemantics ==
    /\ (task = "match" /\ matched # <<>>) =>
          matched = <<PatternSemantics(text, pattern)>>
    /\ (task = "match" /\ matched_simd # <<>>) =>
          matched_simd = <<PatternSemantics(text, pattern)>>
    /\ Matched(<<120>>, <<Star>>) => matched = <<TRUE>> /\ matched_simd = <<TRUE>>
    /\ Matched(<<76, 105, 103, 104, 116, 77, 105, 120>>, <<76, 105, 103, 104, 116, 42>>) => matched = <<TRUE>> /\ matched_simd = <<TRUE>>
    /\ Matched(<<83, 107, 121>>, <<42, 107, 121>>) => matched = <<TRUE>> /\ matched_simd = <<TRUE>>
    /\ Matched(<<120>>, <<121>>) => matched = <<FALSE>> /\ matched_simd = <<FALSE>>
    /\ Matched(<<116, 101, 115, 116>>, <<111, 116, 104, 101, 114, 42>>) => matched = <<FALSE>> /\ matched_simd = <<FALSE>>

\* a prefix of one register and a byte was compared by the SSE2 path and
\* found in the text, by both matchers
C10_Witness ==
    /\ task = "match" /\ sse2
    /\ pattern = Fill(97, LaneBytes) \o <<98, Star>>
    /\ text = Fill(97, LaneBytes) \o <<98>> \o Fill(97, LaneBytes)
    /\ matched = <<TRUE>> /\ matched_simd = <<TRUE>>

(***************************************************************************)
(* Properties of the parser, continued                                     *)
(***************************************************************************)
\* the bytes of a file held in one literal chunk
FileBytes == file[1][1]

\* four bytes as a signed 32-bit number, little-endian
Signed32(b) ==
    b[1] + 256 * b[2] + 65536 * b[3]
        + 16777216 * (IF b[4] < 128 THEN b[4] ELSE b[4] - 256)

\* the file is the magic, a version word, one displayWindow attribute of
\* size 16 and the empty name; its payload is the last 16 bytes before the
\* terminator
MinimalHeader ==
    /\ file = Lit(FileBytes)
    /\ Len(FileBytes) >= 25
    /\ \E t \in {<<>>, <<98>>} :
          FileBytes = LE32(20000630) \o SubSeq(FileBytes, 5, 8)
                        \o <<100, 105, 115, 112, 108, 97, 121, 87, 105, 110,
                             100, 111, 119, 0>>
                        \o t \o <<0>> \o <<16, 0, 0, 0>>
                        \o SubSeq(FileBytes, Len(FileBytes) - 16, Len(FileBytes) - 1)
                        \o <<0>>

MinimalPayload == SubSeq(FileBytes, Len(FileBytes) - 16, Len(FileBytes) - 1)

\* C11: the parse of the magic, a version word, one displayWindow attribute
\* of size 16 holding (a, b, c, d) and the terminator succeeds with
\* display_window = (a, b, c, d), compression "Unknown", line order
\* "Increasing", pixel aspect 1.0, no layer name, no channels and no custom
\* attributes.
C11_MinimalHeader ==
    (run = 1 /\ MinimalHeader /\ Finished) =>
        /\ pc = "done"
        /\ Outcome = <<"Ok", metadata>>
        /\ metadata.display_window =
              << Signed32(SubSeq(MinimalPayload, 1, 4)),
                 Signed32(SubSeq(MinimalPayload, 5, 8)),
                 Signed32(SubSeq(MinimalPayload, 9, 12)),
                 Signed32(SubSeq(MinimalPayload, 13, 16)) >>
        /\ (MinimalPayload = LE32(0) \o LE32(0) \o LE32(1919) \o LE32(1079)) =>
              metadata.display_window = <<0, 0, 1919, 1079>>
        /\ metadata.compression = <<"Unknown">>
        /\ metadata.line_order = <<"Increasing">>
        /\ metadata.pixel_aspect = 1065353216
        /\ metadata.layer_name = <<>>
        /\ metadata.channels = <<>>
        /\ DOMAIN metadata.custom_attributes = {}

\* the minimal header with negative corners was parsed
C11_Witness ==
    /\ run = 1 /\ MinimalHeader /\ pc = "done"
    /\ metadata.display_window = <<-1, -2147483647, 2147483647, 10>>

(***************************************************************************)
(* The batch: main of main.rs (178-219) maps the files over the rayon      *)
(* pool, pushes one message per file under a mutex and collects the        *)
(* results; main of _tools/main_thump.rs (230-249) does the same with      *)
(* for_each and two atomic counters.  A worker takes an item the pool      *)
(* hands it, calls process_exr_file, records the message, and returns.     *)
(***************************************************************************)
MaxFiles == 3

MaxWorkers == 2

\* no parse is running
IdleParser ==
    /\ file = Lit(<<>>)
    /\ data = Lit(<<>>)
    /\ position = 0
    /\ pc = "idle"
    /\ run = 1
    /\ err = NoError
    /\ metadata = DefaultMetadata
    /\ attr = NoAttr
    /\ chan = NoChan
    /\ lastOp = NoOp
    /\ first = <<"none">>

\* no classification is running
IdleClassifier ==
    /\ task = "none"
    /\ config = create_default_config
    /\ channel_name = <<>>
    /\ text = <<>>
    /\ pattern = <<>>
    /\ sse2 = FALSE
    /\ group = <<>>
    /\ group_fast = <<>>
    /\ matched = <<>>
    /\ matched_simd = <<>>

Workers == 1..MaxWorkers

IdleWorker == [file |-> 0, stage |-> "idle"]

\* the batch of n files, of which those in failing make process_exr_file
\* return an error
NewBatch(tool, n, failing) ==
    [tool |-> tool,
     n |-> n,
     failing |-> failing,
     worker |-> [w \in Workers |-> IdleWorker],
     taken |-> {},
     calls |-> [i \in 1..n |-> 0],
     outcome |-> [i \in 1..n |-> "none"],
     messages |-> <<>>,
     results |-> [i \in 1..n |-> "none"],
     success_count |-> 0,
     failure_count |-> 0,
     summary |-> <<>>]

InitBatch ==
    /\ IdleParser
    /\ IdleClassifier
    /\ grouping = NoGrouping
    /\ \E tool \in {"main", "thumb"}, n \in 0..MaxFiles :
          \E failing \in SUBSET (1..n) : batch = NewBatch(tool, n, failing)

\* Take handing out a file already handed out
TakeAgain ==
    \E w \in Workers, i \in 1..batch.n :
        /\ batch.worker[w].stage = "idle"
        /\ batch.summary = <<>>
        /\ batch.calls[i] < 2
        /\ batch' = [batch EXCEPT !.worker[w] = [file |-> i, stage |-> "taken"],
                                  !.taken = @ \cup {i}]
        /\ UNCHANGED <<parserVars, classifierVars, grouping>>

\* par_iter(): the pool hands an item not yet handed out to a free worker
Take ==
    \E w \in Workers, i \in 1..batch.n :
        /\ batch.worker[w].stage = "idle"
        /\ i \notin batch.taken
        /\ batch' = [batch EXCEPT !.worker[w] = [file |-> i, stage |-> "taken"],
                                  !.taken = @ \cup {i}]
        /\ UNCHANGED <<parserVars, classifierVars, grouping>>

\* let result = process_exr_file(path, ..)
ProcessFile ==
    \E w \in Workers :
        LET i == batch.worker[w].file IN
        /\ batch.worker[w].stage = "taken"
        /\ batch' = [batch EXCEPT
                        !.worker[w].stage = "processed",
                        !.calls[i] = @ + 1,
                        !.outcome[i] = IF i \in batch.failing THEN "Err" ELSE "Ok"]
        /\ UNCHANGED <<parserVars, classifierVars, grouping>>

\* progress_msgs.lock().unwrap().push(msg), println!/eprintln! in main_thump
RecordMessage ==
    \E w \in Workers :
        LET i == batch.worker[w].file IN
        /\ batch.worker[w].stage = "processed"
        /\ batch' = [batch EXCEPT
                        !.worker[w].stage = "recorded",
                        !.messages = Append(@, <<i, batch.outcome[i]>>)]
        /\ UNCHANGED <<parserVars, classifierVars, grouping>>

\* the closure returns: its value goes to the file's place in `results`
\* (collect keeps the order of the files), or fetch_add(1) on a counter
Return ==
    \E w \in Workers :
        LET i == batch.worker[w].file
            ok == batch.outcome[i] = "Ok"
        IN
        /\ batch.worker[w].stage = "recorded"
        /\ IF batch.tool = "main"
           THEN batch' = [batch EXCEPT !.worker[w] = IdleWorker,
                                       !.results[i] = batch.outcome[i]]
           ELSE batch' = [batch EXCEPT
                             !.worker[w] = IdleWorker,
                             !.success_count = IF ok THEN @ + 1 ELSE @,
                             !.failure_count = IF ok THEN @ ELSE @ + 1]
        /\ UNCHANGED <<parserVars, classifierVars, grouping>>

\* collect() / for_each() return once every item is done; then the counts
Summarise ==
    /\ batch.tool \in {"main", "thumb"}
    /\ batch.summary = <<>>
    /\ batch.taken = 1..batch.n
    /\ \A w \in Workers : batch.worker[w].stage = "idle"
    /\ batch' = [batch EXCEPT !.summary =
          IF batch.tool = "main"
          THEN << Cardinality({i \in 1..batch.n : batch.results[i] = "Ok"}),
                  Cardinality({i \in 1..batch.n : batch.results[i] = "Err"}) >>
          ELSE << batch.success_count, batch.failure_count >>]
    /\ UNCHANGED <<parserVars, classifierVars, grouping>>

NextBatch ==
    \/ Take
    \/ ProcessFile
    \/ RecordMessage
    \/ Return
    \/ Summarise

SpecBatch == InitBatch /\ [][NextBatch]_vars

\* the messages recorded for file i
MessagesOf(i) == {k \in 1..Len(batch.messages) : batch.messages[k][1] = i}

\* C12: under every interleaving of the workers each file is processed
\* exactly once, its outcome is its own whatever the other files' outcomes,
\* one message is recorded per file, the batch always goes on to its end,
\* and at the end successful + failed = N with failed the number of files
\* whose processing returned an error.
C12_Batch ==
    /\ \A i \in 1..batch.n :
          /\ batch.calls[i] <= 1
          /\ Cardinality(MessagesOf(i)) <= 1
          /\ batch.outcome[i] # "none" =>
                /\ batch.calls[i] = 1
                /\ batch.outcome[i] = "Err" <=> i \in batch.failing
          /\ \A k \in MessagesOf(i) : batch.messages[k][2] = batch.outcome[i]
    /\ batch.summary = <<>> => ENABLED NextBatch
    /\ batch.summary # <<>> =>
          /\ \A i \in 1..batch.n :
                batch.calls[i] = 1 /\ Cardinality(MessagesOf(i)) = 1
          /\ Len(batch.messages) = batch.n
          /\ batch.summary[1] + batch.summary[2] = batch.n
          /\ batch.summary[2] = Cardinality(batch.failing)

\* a batch of three files ended with one failure, recorded between the
\* messages of the two successes
C12_Witness ==
    /\ batch.tool = "main"
    /\ batch.n = 3
    /\ batch.summary = <<2, 1>>
    /\ batch.messages[2][2] = "Err"

(***************************************************************************)
(* The grouping of one file's channels: process_exr_file (main.rs          *)
(* 285-310).  The channels are classified in parallel, the pairs collected *)
(* in the order of the channel list, inserted one by one into a BTreeMap   *)
(* keyed by the group name, and the map is iterated for the report.        *)
(***************************************************************************)
MaxChannels == 3

\* the bytes of the group names, which order the keys of the BTreeMap
Utf8 ==
       "Base" :> <<66, 97, 115, 101>>
    @@ "Scene" :> <<83, 99, 101, 110, 101>>
    @@ "Technical" :> <<84, 101, 99, 104, 110, 105, 99, 97, 108>>
    @@ "Light" :> <<76, 105, 103, 104, 116>>
    @@ "Cryptomatte" :> <<67, 114, 121, 112, 116, 111, 109, 97, 116, 116, 101>>
    @@ "Scene Objects" :> <<83, 99, 101, 110, 101, 32, 79, 98, 106, 101, 99, 116, 115>>
    @@ "Basic RGB" :> <<66, 97, 115, 105, 99, 32, 82, 71, 66>>
    @@ "Other" :> <<79, 116, 104, 101, 114>>

\* the order of String: that of the bytes, a proper prefix first
LexLess(a, b) ==
    \/ Len(a) < Len(b) /\ a = SubSeq(b, 1, Len(a))
    \/ \E i \in 1..Min(Len(a), Len(b)) :
          /\ SubSeq(a, 1, i - 1) = SubSeq(b, 1, i - 1)
          /\ a[i] < b[i]

\* the channel names of the files grouped:
    \*   R
    \*   Beauty.red
    \*   LightMix.blue
    \*   Background.red
    \*   ID0.red
    \*   Cryptomatte.x
    \*   RenderStamp.a
GroupedNames ==
    {
      <<82>>,
      <<66, 101, 97, 117, 116, 121, 46, 114, 101, 100>>,
      <<76, 105, 103, 104, 116, 77, 105, 120, 46, 98, 108, 117, 101>>,
      <<66, 97, 99, 107, 103, 114, 111, 117, 110, 100, 46, 114, 101, 100>>,
      <<73, 68, 48, 46, 114, 101, 100>>,
      <<67, 114, 121, 112, 116, 111, 109, 97, 116, 116, 101, 46, 120>>,
      <<82, 101, 110, 100, 101, 114, 83, 116, 97, 109, 112, 46, 97>>
    }

ChannelLists == UNION {[1..n -> GroupedNames] : n \in 0..MaxChannels}

InitGrouping ==
    /\ IdleParser
    /\ IdleClassifier
    /\ batch = NoBatch
    /\ \E list \in ChannelLists :
          grouping = [stage |-> "classify",
                      list |-> list,
                      grouped_channels |-> [i \in 1..Len(list) |-> <<>>],
                      next |-> 1,
                      channel_groups |-> [k \in {} |-> <<>>],
                      report |-> <<>>]

\* .map(|channel| (determine_channel_group(..), channel)) for one channel,
\* on any thread of the pool, in any order
ClassifyChannel ==
    \E i \in 1..Len(grouping.list) :
        /\ grouping.stage = "classify"
        /\ grouping.grouped_channels[i] = <<>>
        /\ grouping' = [grouping EXCEPT !.grouped_channels[i] =
              <<determine_channel_group(grouping.list[i], config), i>>]
        /\ UNCHANGED <<parserVars, classifierVars, batch>>

\* .collect(): every channel is classified
Collect ==
    /\ grouping.stage = "classify"
    /\ \A i \in 1..Len(grouping.list) : grouping.grouped_channels[i] # <<>>
    /\ grouping' = [grouping EXCEPT !.stage = "merge"]
    /\ UNCHANGED <<parserVars, classifierVars, batch>>

\* channel_groups.entry(group_name).or_insert_with(Vec::new).push(channel)
\* for the next pair of grouped_channels, or the end of the for loop
Merge ==
    /\ grouping.stage = "merge"
    /\ IF grouping.next > Len(grouping.list)
       THEN grouping' = [grouping EXCEPT !.stage = "report"]
       ELSE LET pair == grouping.grouped_channels[grouping.next]
                map == grouping.channel_groups
                entry == IF pair[1] \in DOMAIN map THEN map[pair[1]] ELSE <<>>
            IN  grouping' = [grouping EXCEPT
                    !.next = @ + 1,
                    !.channel_groups =
                        MapInsert(map, pair[1], Append(entry, pair[2]))]
    /\ UNCHANGED <<parserVars, classifierVars, batch>>

\* the groups of the map not yet written to the report
Unreported ==
    DOMAIN grouping.channel_groups
        \ {grouping.report[k][1] : k \in 1..Len(grouping.report)}

\* ReportGroup taking the groups in any order
ReportGroupUnordered ==
    /\ grouping.stage = "report"
    /\ IF Unreported = {}
       THEN grouping' = [grouping EXCEPT !.stage = "done"]
       ELSE \E key \in Unreported :
               grouping' = [grouping EXCEPT !.report =
                   Append(@, <<key, grouping.channel_groups[key]>>)]
    /\ UNCHANGED <<parserVars, classifierVars, batch>>

\* for (group_name, channels) in channel_groups: the next entry of the
\* BTreeMap, the one of the smallest key left, or the end of the loop
ReportGroup ==
    /\ grouping.stage = "report"
    /\ IF Unreported = {}
       THEN grouping' = [grouping EXCEPT !.stage = "done"]
       ELSE \E key \in Unreported :
               /\ \A other \in Unreported \ {key} : LexLess(Utf8[key], Utf8[other])
               /\ grouping' = [grouping EXCEPT !.report =
                     Append(@, <<key, grouping.channel_groups[key]>>)]
    /\ UNCHANGED <<parserVars, classifierVars, batch>>

NextGrouping ==
    \/ ClassifyChannel
    \/ Collect
    \/ Merge
    \/ ReportGroup

SpecGrouping == InitGrouping /\ [][NextGrouping]_vars

\* the channels of the list that classification puts under the key, in the
\* order of the list
RECURSIVE ChannelsOf(_, _)
ChannelsOf(key, i) ==
    IF i > Len(grouping.list) THEN <<>>
    ELSE IF determine_channel_group(grouping.list[i], config) = key
         THEN <<i>> \o ChannelsOf(key, i + 1)
    ELSE ChannelsOf(key, i + 1)

\* C13: whatever the order in which the channels were classified, the report
\* holds each channel in exactly one group, the one its classification
\* returned; the channels of one group are gathered in its list; and the
\* groups come in ascending order of their keys.
C13_Grouping ==
    grouping.stage = "done" =>
        LET report == grouping.report IN
        /\ \A i \in 1..Len(grouping.list) :
              \E k \in 1..Len(report) :
                 /\ report[k][1] = determine_channel_group(grouping.list[i], config)
                 /\ \A k2 \in 1..Len(report) :
                       (\E j2 \in 1..Len(report[k2][2]) : report[k2][2][j2] = i)
                           => k2 = k
                 /\ Cardinality({j \in 1..Len(report[k][2]) : report[k][2][j] = i}) = 1
        /\ \A k \in 1..Len(report) : report[k][2] = ChannelsOf(report[k][1], 1)
        /\ \A k \in 1..Len(report) : report[k][2] # <<>>
        /\ \A k \in 1..(Len(report) - 1) :
              LexLess(Utf8[report[k][1]], Utf8[report[k + 1][1]])

\* ID0.red, Background.red and a second scene object were classified and
\* reported: Scene before Scene Objects, the two objects in one group
C13_Witness ==
    /\ grouping.stage = "done"
    /\ Len(grouping.list) = 3
    /\ grouping.report = << <<"Scene", <<2>> >>, <<"Scene Objects", <<1, 3>> >> >>

\* C14: over a run of parse_metadata the cursor position never decreases
\* from one step to the next, the recovery of the unknown-attribute branch
\* that assigns position = start_pos included.
C14_PositionMonotonic == [][run' = run => position' >= position]_vars

\* the recovery of the unknown-attribute branch ran: the fixed-string read
\* of a small payload had failed and the skip from start_pos failed too
C14_Witness ==
    /\ pc = "failed"
    /\ lastOp.op = "skip"
    /\ attr.name \notin KnownNames
    /\ attr.size > 0 /\ attr.size <= 64
    /\ position = attr.start_pos
    /\ position > 8

\* read_null_terminated_string has just read an attribute's name or type
StringRead ==
    /\ lastOp.op = "read_null_terminated_string"
    /\ pc \in {"attr_type", "attr_size", "done"}

\* the bytes it returned, and the String made of them
StringReadBytes == IF pc = "attr_size" THEN attr.type_bytes ELSE attr.name_bytes

StringReadValue == IF pc = "attr_size" THEN attr.type ELSE attr.name

\* C15: read_null_terminated_string never fails; started at p it returns
\* the bytes from p up to the first zero byte at z >= p and leaves the
\* position at z + 1, or, with no zero byte from p on, returns the bytes
\* from p to the end of the buffer and leaves the position at the buffer's
\* length (the empty string when p is at the end).
C15_NullTerminated ==
    StringRead =>
        LET p == lastOp.before
            n == Len(StringReadBytes)
        IN
        /\ lastOp.ok
        /\ pc # "failed"
        /\ p + n <= BLen(data)
        /\ \A i \in 1..n :
              /\ StringReadBytes[i] = ByteAt(data, p + i - 1)
              /\ StringReadBytes[i] # 0
        /\ IF p + n < BLen(data)
           THEN ByteAt(data, p + n) = 0 /\ position = p + n + 1
           ELSE position = BLen(data)
        /\ p = BLen(data) => StringReadBytes = <<>> /\ StringReadValue = <<>>
        /\ Len(StringReadValue) = n
        /\ \A i \in 1..n :
              StringReadBytes[i] < 128 => StringReadValue[i] = StringReadBytes[i]

\* a type tag was read from a buffer that ends without a zero byte
C15_Witness ==
    /\ StringRead
    /\ pc = "attr_size"
    /\ attr.type_bytes # <<>>
    /\ position = BLen(data)
    /\ ByteAt(data, position - 1) # 0

\* parse_channels is running, or has just returned to the attribute loop
InChannels ==
    \/ pc \in {"ch_loop", "ch_pixel_type", "ch_p_linear", "ch_reserved",
               "ch_x_sampling", "ch_y_sampling"}
    \/ Handled /\ attr.name = NameChannels

\* C16: parse_channels is bounded by the declared size: for a payload that
\* starts at s with declared size S it consumes no byte at an index >= s + S,
\* so the position stays at most s + S while it runs and when it returns.
C16_SpanBound == InChannels => position <= attr.payload + attr.size

\* the index of the first zero byte of the buffer at or after p
RECURSIVE FirstZero(_)
FirstZero(p) == IF ByteAt(data, p) = 0 THEN p ELSE FirstZero(p + 1)

\* the channel records laid out in the buffer from p and beginning before
\* `end`, up to an empty name or the buffer's end: the name, then the pixel
\* type (4 bytes),
\* pLinear (1), reserved (3), xSampling (4), ySampling (4)
RECURSIVE RecordsFrom(_, _)
RecordsFrom(p, end) ==
    IF p >= end \/ p >= BLen(data) \/ ByteAt(data, p) = 0 THEN <<>>
    ELSE LET q == FirstZero(p) + 1 IN
         << [name |-> Bytes(data, p, q - 1 - p),
             sample_type |->
                <<"UInt", "Half", "Float">>[Signed32(Bytes(data, q, 4)) + 1],
             sampling |-> << Signed32(Bytes(data, q + 8, 4)),
                             Signed32(Bytes(data, q + 12, 4)) >>,
             quantize_linearly |-> ByteAt(data, q + 4) # 0] >>
            \o RecordsFrom(q + 16, end)

\* parse_channels has returned from a span its records did not overrun
ChannelsParsed ==
    /\ Handled
    /\ attr.name = NameChannels
    /\ position <= attr.payload + attr.size

\* C17: the channels parsed are the channel records of the payload in their
\* on-disk order, up to the empty name or the end of the span, one
\* ChannelInfo per record with the record's name, sample type, samplings and
\* quantize_linearly true iff pLinear is not zero; the reserved bytes do not
\* count.
C17_ChannelsInOrder ==
    ChannelsParsed =>
        metadata.channels = RecordsFrom(attr.payload, attr.payload + attr.size)

\* R (Float, pLinear 1) and G (UInt, pLinear 0, sampling (2, 2)) were
\* parsed from one payload, in that order
C17_Witness ==
    /\ ChannelsParsed
    /\ Len(metadata.channels) = 2
    /\ metadata.channels[1] = ChannelInfo(<<82>>, "Float", 1, 1, 1)
    /\ metadata.channels[2] = ChannelInfo(<<71>>, "UInt", 2, 2, 0)

\* printable ASCII (graphic or the space) and the ASCII whitespace
\* characters tab, line feed, form feed, carriage return
PrintableOrWhitespace == (32..126) \cup {9, 10, 12, 13}

\* C18: an attribute with an unrecognized name and declared size S adds the
\* entry keyed by its name to custom_attributes iff 0 < S <= 64 and every
\* character of the payload is printable ASCII or ASCII whitespace; in every
\* other successfully processed case custom_attributes is unchanged; and no
\* unrecognized attribute changes channels, display_window, pixel_aspect,
\* compression, line_order or layer_name.
C18_CustomAttributes ==
    [][ (run' = run /\ pc \in {"dispatch", "unknown_recover"}
            /\ attr.name \notin KnownNames) =>
          LET S == attr.size
              kept == /\ pc = "dispatch" /\ pc' = "attr_loop"
                      /\ 0 < S /\ S <= 64
                      /\ \A i \in 0..(S - 1) :
                            ByteAt(data, attr.payload + i) \in PrintableOrWhitespace
          IN
          /\ metadata'.channels = metadata.channels
          /\ metadata'.display_window = metadata.display_window
          /\ metadata'.pixel_aspect = metadata.pixel_aspect
          /\ metadata'.compression = metadata.compression
          /\ metadata'.line_order = metadata.line_order
          /\ metadata'.layer_name = metadata.layer_name
          /\ IF kept
             THEN /\ DOMAIN metadata'.custom_attributes
                        = DOMAIN metadata.custom_attributes \cup {attr.name}
                  /\ metadata'.custom_attributes[attr.name]
                        = Bytes(data, attr.payload, S)
                  /\ \A k \in DOMAIN metadata.custom_attributes \ {attr.name} :
                        metadata'.custom_attributes[k] = metadata.custom_attributes[k]
             ELSE metadata'.custom_attributes = metadata.custom_attributes
      ]_vars

\* the attribute x with the payload tab, '~', space was kept
C18_Witness ==
    /\ UnknownHandled
    /\ attr.name \in DOMAIN metadata.custom_attributes
    /\ metadata.custom_attributes[attr.name] = <<9, 126, 32>>

(***************************************************************************)
(* Properties of the classifiers, continued                                *)
(***************************************************************************)
\* the configured classifier has answered for a name that is not R, G, B, A
ClassifiedByPrefix ==
    /\ task = "classify"
    /\ group # <<>>
    /\ channel_name \notin {<<82>>, <<71>>, <<66>>, <<65>>}

\* the text before the first '.', or the whole name
PrefixOf(name) ==
    IF \E i \in 1..Len(name) : name[i] = 46
    THEN SubSeq(name, 1,
             (CHOOSE i \in 1..Len(name) :
                 name[i] = 46 /\ \A j \in 1..(i - 1) : name[j] # 46) - 1)
    ELSE name

\* the places of group_priority_order whose key has a group that lists the
\* prefix or has a pattern matching it
MatchingPlaces ==
    LET order == config.config.group_priority_order IN
    {i \in 1..Len(order) :
        /\ order[i] \in DOMAIN config.groups
        /\ LET def == config.groups[order[i]] IN
           \/ \E k \in 1..Len(def.prefixes) : def.prefixes[k] = PrefixOf(channel_name)
           \/ \E k \in 1..Len(def.patterns) :
                 PatternSemantics(PrefixOf(channel_name), def.patterns[k])}

\* the name the classifier gives the group of a key: the cached name of the
\* key, the group's own name for a key the cache lacks
NameOfKey(key) ==
    IF key \in DOMAIN GROUP_NAME_CACHE THEN GROUP_NAME_CACHE[key]
    ELSE config.groups[key].name

\* C19: for a name that is not a basic-RGB name the result is the group of
\* the first key of group_priority_order whose definition has the name's
\* prefix in its prefix list or matched by one of its patterns; a later
\* group never wins over an earlier matching one, and a group the list does
\* not name is never selected by its prefixes or patterns.
C19_PriorityOrder ==
    ClassifiedByPrefix =>
        LET order == config.config.group_priority_order IN
        IF MatchingPlaces # {}
        THEN group = <<NameOfKey(order[CHOOSE i \in MatchingPlaces :
                                          \A j \in MatchingPlaces : i <= j])>>
        ELSE group = <<IF "scene_objects" \in DOMAIN config.groups
                       THEN "Scene Objects" ELSE "Other">>

\* LightMix.blue is listed by cryptomatte, listed by light and matched by a
\* pattern of the scene objects: cryptomatte, first in the order, has it
C19_Witness ==
    /\ ClassifiedByPrefix
    /\ config = Overlapping
    /\ channel_name = <<76, 105, 103, 104, 116, 77, 105, 120, 46, 98, 108, 117, 101>>
    /\ Cardinality(MatchingPlaces) = 3
    /\ group = <<"Cryptomatte">>

\* the configured classifier has answered for R, G, B or A
ClassifiedBasicRgb ==
    /\ task = "classify"
    /\ group # <<>>
    /\ channel_name \in {<<82>>, <<71>>, <<66>>, <<65>>}

\* C20: for a bare basic-RGB channel name and any configuration the result
\* is the `name` of a configured group flagged basic_rgb if there is one,
\* otherwise the configured label fallback_names.basic_rgb.
C20_BasicRgbName ==
    ClassifiedBasicRgb =>
        IF \E k \in DOMAIN config.groups : config.groups[k].basic_rgb
        THEN \E k \in DOMAIN config.groups :
                config.groups[k].basic_rgb /\ group = <<config.groups[k].name>>
        ELSE group = <<config.config.fallback_names.basic_rgb>>

(***************************************************************************)
(* Termination of the parse                                                *)
(***************************************************************************)
\* C21: parse_metadata terminates on every finite buffer: a step at the head
\* of the attribute loop or of the channel-record loop advances the cursor,
\* leaves the loop or returns an error, and every parse, of the header
\* buffer and of the whole file, reaches Ok or an error.
C21_Terminates ==
    /\ [][ (run' = run /\ pc = "attr_loop") =>
              (position' > position \/ pc' \in {"done", "failed"}) ]_vars
    /\ [][ (run' = run /\ pc = "ch_loop") =>
              (position' > position \/ pc' \in {"attr_loop", "failed"}) ]_vars
    /\ (run = 1 /\ ~Finished) ~> Finished
    /\ (run = 2 /\ ~Finished) ~> Finished

\* parse_channels left its loop at the end of the buffer, short of the end
\* of a span declared longer than the bytes that remain
C21_Witness ==
    /\ Handled
    /\ attr.name = NameChannels
    /\ chan.broke
    /\ position = BLen(data)
    /\ attr.payload + attr.size > BLen(data)

(***************************************************************************)
(* Agreement of the two classifiers                                        *)
(***************************************************************************)
\* the display name the specification gives for a group key
DisplayName(key) ==
    CASE key = "base" -> "Base"
      [] key = "scene" -> "Scene"
      [] key = "technical" -> "Technical"
      [] key = "light" -> "Light"
      [] key = "cryptomatte" -> "Cryptomatte"
      [] key = "scene_objects" -> "Scene Objects"

\* C22: under the default configuration, for every channel name, the
\* display name of the group key that determine_channel_group_ultra_fast
\* returns equals the string that determine_channel_group returns, the names
\* whose prefix is Beauty included.
C22_TiersAgree ==
    (Configured(channel_name) /\ Fast(channel_name)) =>
        group = <<DisplayName(group_fast[1])>>

=============================================================================
